---------------------------- MODULE Spec2Model ----------------------------
(***************************************************************************)
(* A model of the adapter layer of remotedebug-ios-webkit-adapter:         *)
(*   Adapter            (src/src/adapters/adapter.ts)                      *)
(*   AdapterCollection  (src/unnamed/part_000)                             *)
(*   IOSAdapter         (src/src/adapters/iosAdapter.ts)                   *)
(*                                                                         *)
(* Strings are sequences of one-character strings, so that indexOf,        *)
(* substr, replace and template concatenation are computed as the code     *)
(* computes them.  JavaScript offsets are 0-based; s[i+1] is the character *)
(* at offset i.                                                            *)
(***************************************************************************)
EXTENDS Integers, Sequences, FiniteSets, TLC

VARIABLES
    url,        \* SpecDecode: the address handed to getWebSocketId
    wsId,       \* SpecDecode: what getWebSocketId returned for it
    decPc,      \* SpecDecode: "start" before the call, "done" after it
    adapters,   \* the Adapter instances: instance number -> its fields
    targets,    \* the Target (session) objects ever connected, by number
    calls,      \* Adapter.getTargets calls of the leaf adapter, by slot
    lastConnect,\* the last connectTo call: its arguments and what it returned
    preStop,    \* the sessions that were registered when stop() last ran
    coll,       \* SpecColl: the IOSAdapter's own fields
    options,    \* SpecProc: which of proxyExePath and proxyExeArgs are set
    proxyProc,  \* SpecProc: this._proxyProc, a process number or 0 for none
    procs,      \* SpecProc: the processes ever spawned, each with its state
    ops,        \* SpecProc: the start() and forceRefresh() calls made so far
    lastStop,   \* SpecProc: the last stop() call: how it went
    version,    \* SpecVersion: the version string handed to getProtocolFor
    protocol,   \* SpecVersion: the protocol class getProtocolFor constructed
    devices,    \* SpecNorm: the enumerated list handed to processDeviceVersions
    processedDevices, \* SpecNorm: the list processDeviceVersions returned
    lastForward, \* SpecFwd: the last forwardTo call: its arguments, its outcome
    fixtureTargets, \* SpecFixture: the parsed fixture list of the TestAdapter
    testTargets, \* SpecFixture: what createTestTargets returned for it
    cycle       \* SpecDev: the list of the last discovery cycle, the ids it left out

decVars == <<url, wsId, decPc>>

regVars == <<adapters, targets, calls, lastConnect, preStop, coll>>

procVars == <<options, proxyProc, procs, ops, lastStop>>

verVars == <<version, protocol>>

normVars == <<devices, processedDevices>>

fwdVars == <<lastForward>>

fixVars == <<fixtureTargets, testTargets>>

devVars == <<cycle>>

vars == <<decVars, regVars, procVars, verVars, normVars, fwdVars, fixVars, devVars>>

\* what the actions of one specification leave alone
otherThanDec ==
    <<regVars, procVars, verVars, normVars, fwdVars, fixVars, devVars>>
otherThanReg ==
    <<decVars, procVars, verVars, normVars, fwdVars, fixVars, devVars>>
otherThanProc ==
    <<decVars, regVars, verVars, normVars, fwdVars, fixVars, devVars>>
otherThanVer ==
    <<decVars, regVars, procVars, normVars, fwdVars, fixVars, devVars>>
otherThanNorm ==
    <<decVars, regVars, procVars, verVars, fwdVars, fixVars, devVars>>

----------------------------------------------------------------------------
(* Bounds                                                                  *)

\* longest address handed to getWebSocketId
MaxAddrLen == 6

\* getTargets calls of one adapter that may be in flight together
MaxCalls == 1

\* elements in one discovery response body
MaxBody == 1

\* Target objects ever constructed
MaxTargets == 3

\* devices in one enumeration response
MaxDevices == 2

\* start() and forceRefresh() calls made on one adapter
MaxOps == 3

\* processes ever spawned by one adapter
MaxProcs == 2

\* longest version string handed to getProtocolFor
MaxVerLen == 4

\* children of the collection that is started
MaxChildren == 2


----------------------------------------------------------------------------
(* JavaScript string primitives                                            *)

SetMin(S) == CHOOSE x \in S : \A y \in S : x <= y

\* s.indexOf(c, from) for a one-character c
IndexOf(s, c, from) ==
    LET hits == {i \in from..(Len(s) - 1) : s[i + 1] = c}
    IN  IF hits = {} THEN -1 ELSE SetMin(hits)

\* s.substr(start, len)
Substr(s, start, len) ==
    LET last == IF start + len < Len(s) THEN start + len ELSE Len(s)
    IN  SubSeq(s, start + 1, last)

\* s.substr(start)
SubstrFrom(s, start) == SubSeq(s, start + 1, Len(s))

\* s.indexOf(pat) for a string pat
IndexOfStr(s, pat) ==
    LET hits == {i \in 0..(Len(s) - Len(pat)) :
                    SubSeq(s, i + 1, i + Len(pat)) = pat}
    IN  IF hits = {} THEN -1 ELSE SetMin(hits)

\* s.includes(pat)
Includes(s, pat) == IndexOfStr(s, pat) # -1

\* s.replace(pat, rep) with a string pattern: the first occurrence only
Replace(s, pat, rep) ==
    LET i == IndexOfStr(s, pat)
    IN  IF i = -1 THEN s
        ELSE SubSeq(s, 1, i) \o rep \o SubSeq(s, i + Len(pat) + 1, Len(s))

\* all strings over alphabet A of length at most n
StringsUpTo(A, n) == UNION {[1..k -> A] : k \in 0..n}

----------------------------------------------------------------------------
(* AdapterCollection.getWebSocketId                                        *)

\* the null result
NoWebSocketId == [ok |-> FALSE, adapterId |-> <<>>, targetId |-> <<>>]

\* the offset-1 reading of the addressing rule: the namespace id is the text
\* between offset 1 and the next slash
getWebSocketId_FromOffset1(u) ==
    IF u = <<>> THEN NoWebSocketId
    ELSE LET index == IndexOf(u, "/", 1)
         IN  IF index = -1 THEN NoWebSocketId
             ELSE LET adapterId == Substr(u, 1, index - 1)
                      targetId  == SubstrFrom(u, index + 1)
                  IN  IF adapterId = <<>> \/ targetId = <<>>
                      THEN NoWebSocketId
                      ELSE [ok |-> TRUE, adapterId |-> adapterId,
                            targetId |-> targetId]

\* a reading that cuts the address at its last slash, so that the target id
\* is the last path segment
getWebSocketId_LastSlash(u) ==
    IF u = <<>> THEN NoWebSocketId
    ELSE LET slashes == {i \in 1..(Len(u) - 1) : u[i + 1] = "/"}
         IN  IF slashes = {} THEN NoWebSocketId
             ELSE LET index     == CHOOSE i \in slashes :
                                       \A j \in slashes : j <= i
                      adapterId == Substr(u, 0, index)
                      targetId  == SubstrFrom(u, index + 1)
                  IN  IF adapterId = <<>> \/ targetId = <<>>
                      THEN NoWebSocketId
                      ELSE [ok |-> TRUE, adapterId |-> adapterId,
                            targetId |-> targetId]

getWebSocketId(u) ==
    IF u = <<>> THEN NoWebSocketId                     \* !url
    ELSE LET index == IndexOf(u, "/", 1)
         IN  IF index = -1 THEN NoWebSocketId
             ELSE LET adapterId == Substr(u, 0, index)
                      targetId  == SubstrFrom(u, index + 1)
                  IN  IF adapterId = <<>> \/ targetId = <<>>
                      THEN NoWebSocketId
                      ELSE [ok |-> TRUE, adapterId |-> adapterId,
                            targetId |-> targetId]

----------------------------------------------------------------------------
(* Values                                                                  *)

\* null / undefined
Null == [null |-> TRUE]

\* this._proxyUrl, the socket address of the proxy ("ws://p")
ProxyUrl == <<"w", "s", ":", "/", "/", "p">>

WsScheme == <<"w", "s", ":", "/", "/">>

\* the fixed devtools frontend template in front of "ws=" (shortened)
FrontendUrl == <<"F", "?", "w", "s", "=">>

Unknown == <<"u", "n", "k", "n", "o", "w", "n">>

\* real backend socket addresses ("ws://b/1", "ws://b/2")
WsB1 == <<"w", "s", ":", "/", "/", "b", "/", "1">>
WsB2 == <<"w", "s", ":", "/", "/", "b", "/", "2">>

\* an element of a discovery response body
RawTarget(id, ws) == [id |-> id, webSocketDebuggerUrl |-> ws]

----------------------------------------------------------------------------
(* Target, the session bridge (protocols/target, not among the sources)    *)

\* new Target(targetId, targetData) followed by target.connectTo(url, wsFrom)
NewTarget(owner, targetId, targetData, wsFrom) ==
    [owner |-> owner, targetId |-> targetId, data |-> targetData,
     url |-> targetData.webSocketDebuggerUrl, wsTools |-> wsFrom,
     closed |-> FALSE, forwarded |-> 0]

\* target.forward(message): the message goes to the backend unless the
\* bridge is closed or the call throws
TargetForward(t, throws) ==
    IF t.closed \/ throws THEN t ELSE [t EXCEPT !.forwarded = @ + 1]

\* target.updateClient(wsFrom): rebinds the client side only
TargetUpdateClient(t, wsFrom) == [t EXCEPT !.wsTools = wsFrom]

----------------------------------------------------------------------------
(* Adapter                                                                 *)

\* the constructor; no proxyExePath is configured unless the caller gives one
NewAdapter(id, port) ==
    [id |-> id, port |-> port, targetData |-> <<>>, targetMap |-> <<>>,
     proxyProc |-> 0]

\* JSON.parse(JSON.stringify(t)) of the element after id and metadata are set
safeDeepCopy(id, t, metadata) ==
    [id |-> id, webSocketDebuggerUrl |-> t.webSocketDebuggerUrl,
     metadata |-> metadata]

\* a setTargetInfo that starts the registry afresh with the element it stores
setTargetInfo_Replaces(a, t, metadata) ==
    LET id == IF t = Null THEN <<>>
              ELSE IF t.id # <<>> THEN t.id ELSE t.webSocketDebuggerUrl
    IN  IF id = <<>>
        THEN [adapter |-> a,
              target  |-> [id |-> Unknown, metadata |-> metadata,
                           webSocketDebuggerUrl |->
                               ProxyUrl \o a.id \o <<"/">> \o Unknown,
                           devtoolsFrontendUrl |-> <<>>]]
        ELSE LET wsUrl == Replace(ProxyUrl, WsScheme, <<>>) \o a.id
                              \o <<"/">> \o id
             IN  [adapter |-> [a EXCEPT !.targetData =
                                   (id :> safeDeepCopy(id, t, metadata))],
                  target  |-> [id |-> id, metadata |-> metadata,
                               webSocketDebuggerUrl |->
                                   ProxyUrl \o a.id \o <<"/">> \o id,
                               devtoolsFrontendUrl |-> FrontendUrl \o wsUrl]]

\* setTargetInfo(t, metadata): the adapter after the registry write, and the
\* rewritten descriptor
setTargetInfo(a, t, metadata) ==
    LET id == IF t = Null THEN <<>>
              ELSE IF t.id # <<>> THEN t.id ELSE t.webSocketDebuggerUrl
    IN  IF id = <<>>
        THEN \* the catch branch: a minimal descriptor, no registry write
             [adapter |-> a,
              target  |-> [id |-> Unknown, metadata |-> metadata,
                           webSocketDebuggerUrl |->
                               ProxyUrl \o a.id \o <<"/">> \o Unknown,
                           devtoolsFrontendUrl |-> <<>>]]
        ELSE LET wsUrl == Replace(ProxyUrl, WsScheme, <<>>) \o a.id
                              \o <<"/">> \o id
             IN  [adapter |-> [a EXCEPT !.targetData =
                                   (id :> safeDeepCopy(id, t, metadata)) @@ @],
                  target  |-> [id |-> id, metadata |-> metadata,
                               webSocketDebuggerUrl |->
                                   ProxyUrl \o a.id \o <<"/">> \o id,
                               devtoolsFrontendUrl |-> FrontendUrl \o wsUrl]]

\* the test of getTargets' forEach: t && (t.id || t.webSocketDebuggerUrl)
ValidTarget(t) ==
    /\ t # Null
    /\ (t.id # <<>> \/ t.webSocketDebuggerUrl # <<>>)

\* the forEach over rawTargets: valid elements are rewritten in order
RECURSIVE ProcessTargets(_, _, _)
ProcessTargets(a, rawTargets, metadata) ==
    IF rawTargets = <<>> THEN [adapter |-> a, targets |-> <<>>]
    ELSE IF ValidTarget(Head(rawTargets))
         THEN LET r    == setTargetInfo(a, Head(rawTargets), metadata)
                  rest == ProcessTargets(r.adapter, Tail(rawTargets), metadata)
              IN  [adapter |-> rest.adapter,
                   targets |-> <<r.target>> \o rest.targets]
         ELSE ProcessTargets(a, Tail(rawTargets), metadata)

\* the request callback without the status check
RequestCallback_AnyStatus(a, resp, metadata) ==
    IF resp.error \/ ~resp.hasResponse \/ resp.body.kind # "array"
    THEN [adapter |-> a, targets |-> <<>>]
    ELSE ProcessTargets(a, resp.body.targets, metadata)

\* the request callback of getTargets: the adapter after it and the list it
\* resolves the call with
RequestCallback(a, resp, metadata) ==
    IF resp.error THEN [adapter |-> a, targets |-> <<>>]
    ELSE IF ~resp.hasResponse THEN [adapter |-> a, targets |-> <<>>]
    ELSE IF resp.statusCode # 200 THEN [adapter |-> a, targets |-> <<>>]
    ELSE IF resp.body.kind = "empty" THEN [adapter |-> a, targets |-> <<>>]
    ELSE IF resp.body.kind = "text"         \* JSON.parse throws
         THEN [adapter |-> a, targets |-> <<>>]
    ELSE IF resp.body.kind # "array"        \* !Array.isArray(rawTargets)
         THEN [adapter |-> a, targets |-> <<>>]
    ELSE ProcessTargets(a, resp.body.targets, metadata)

\* what connectTo returns when it returns null
ConnectNull ==
    [adapters |-> adapters, targets |-> targets, target |-> 0,
     reuse |-> "none"]

\* connectTo without the look-up of an existing session
AdapterConnectTo_NoReuse(inst, targetId, wsFrom, throws) ==
    IF \/ targetId = <<>>
       \/ wsFrom = 0
       \/ targetId \notin DOMAIN adapters[inst].targetData
       \/ throws
    THEN ConnectNull
    ELSE [adapters |-> [adapters EXCEPT ![inst].targetMap =
                            (targetId :> Len(targets) + 1) @@ @],
          targets  |-> Append(targets,
                          NewTarget(inst, targetId,
                              adapters[inst].targetData[targetId], wsFrom)),
          target   |-> Len(targets) + 1,
          reuse |-> "none"]

\* a connect that does not look the id up in the Descriptor Registry first
AdapterConnectTo_NoDescriptorCheck(inst, targetId, wsFrom, throws) ==
    LET a == adapters[inst]
        targetData == IF targetId \in DOMAIN a.targetData
                      THEN a.targetData[targetId]
                      ELSE [id |-> targetId, webSocketDebuggerUrl |-> <<>>,
                            metadata |-> Null]
        target == Len(targets) + 1
    IN  IF targetId = <<>> \/ wsFrom = 0 \/ throws THEN ConnectNull
        ELSE IF targetId \in DOMAIN a.targetMap
             THEN [adapters |-> adapters,
                   targets  |-> [targets EXCEPT ![a.targetMap[targetId]] =
                                    TargetUpdateClient(@, wsFrom)],
                   target   |-> a.targetMap[targetId],
                   reuse    |-> "live"]
        ELSE [adapters |-> [adapters EXCEPT ![inst].targetMap =
                               (targetId :> target) @@ @],
              targets  |-> Append(targets,
                              NewTarget(inst, targetId, targetData, wsFrom)),
              target   |-> target,
              reuse    |-> "none"]

\* a connect that records the new session before the backend connection is
\* made, so that a throwing connection leaves it registered
AdapterConnectTo_RegistersFirst(inst, targetId, wsFrom, throws) ==
    LET a == adapters[inst]
    IN  IF targetId = <<>> THEN ConnectNull
        ELSE IF wsFrom = 0 THEN ConnectNull
        ELSE IF targetId \notin DOMAIN a.targetData THEN ConnectNull
        ELSE IF targetId \in DOMAIN a.targetMap
             THEN LET existingTarget == a.targetMap[targetId]
                  IN  [adapters |-> adapters,
                       targets  |-> [targets EXCEPT ![existingTarget] =
                                        TargetUpdateClient(@, wsFrom)],
                       target   |-> existingTarget,
                       reuse |-> IF targets[existingTarget].closed
                                 THEN "closed" ELSE "live"]
        ELSE LET targetData == a.targetData[targetId]
                 target     == Len(targets) + 1
             IN  [adapters |-> [adapters EXCEPT ![inst].targetMap =
                                     (targetId :> target) @@ @],
                  targets  |-> Append(targets,
                                  NewTarget(inst, targetId, targetData, wsFrom)),
                  target   |-> IF throws THEN 0 ELSE target,
                  reuse |-> "none"]

\* Adapter.connectTo(targetId, wsFrom) on instance inst; throws says whether
\* constructing or connecting the new Target throws
AdapterConnectTo(inst, targetId, wsFrom, throws) ==
    LET a == adapters[inst]
    IN  IF targetId = <<>> THEN ConnectNull
        ELSE IF wsFrom = 0 THEN ConnectNull
        ELSE IF targetId \notin DOMAIN a.targetData THEN ConnectNull
        ELSE IF targetId \in DOMAIN a.targetMap
             THEN LET existingTarget == a.targetMap[targetId]
                  IN  [adapters |-> adapters,
                       targets  |-> [targets EXCEPT ![existingTarget] =
                                        TargetUpdateClient(@, wsFrom)],
                       target   |-> existingTarget,
                       reuse |-> IF targets[existingTarget].closed
                                 THEN "closed" ELSE "live"]
        ELSE IF throws THEN ConnectNull
        ELSE LET targetData == a.targetData[targetId]
                 target     == Len(targets) + 1
             IN  [adapters |-> [adapters EXCEPT ![inst].targetMap =
                                     (targetId :> target) @@ @],
                  targets  |-> Append(targets,
                                  NewTarget(inst, targetId, targetData, wsFrom)),
                  target   |-> target,
                  reuse |-> "none"]

\* a forward that hands the message to any session the adapter has when the
\* id has none
AdapterForwardTo_AnySession(inst, targetId, message, throws) ==
    LET a == adapters[inst]
        regd == {a.targetMap[id] : id \in DOMAIN a.targetMap}
    IN  IF targetId = <<>> \/ message = <<>> \/ regd = {}
        THEN [target |-> 0, targets |-> targets]
        ELSE LET target == IF targetId \in DOMAIN a.targetMap
                           THEN a.targetMap[targetId]
                           ELSE CHOOSE t \in regd : TRUE
             IN  [target  |-> target,
                  targets |-> [targets EXCEPT ![target] =
                                  TargetForward(@, throws)]]

\* Adapter.forwardTo(targetId, message) on instance inst: the session whose
\* forward was called (0: none) and the sessions after it; throws says
\* whether that forward throws
AdapterForwardTo(inst, targetId, message, throws) ==
    LET a == adapters[inst]
    IN  IF targetId = <<>> THEN [target |-> 0, targets |-> targets]
        ELSE IF message = <<>> THEN [target |-> 0, targets |-> targets]
        ELSE IF targetId \notin DOMAIN a.targetMap
             THEN [target |-> 0, targets |-> targets]
        ELSE LET target == a.targetMap[targetId]
             IN  [target  |-> target,
                  targets |-> [targets EXCEPT ![target] =
                                  TargetForward(@, throws)]]

\* Adapter.stop(): signal the managed process, if any, and clear the handle
AdapterStop(a) ==
    IF a.proxyProc # 0 THEN [a EXCEPT !.proxyProc = 0] ELSE a

\* the sessions in the Session Registry of instance inst
Registered(inst) ==
    {adapters[inst].targetMap[t] : t \in DOMAIN adapters[inst].targetMap}

----------------------------------------------------------------------------
(* Inputs of the leaf adapter                                              *)

\* the id the leaf adapter is constructed with ("/t")
LeafId == <<"/", "t">>

\* options.port when the caller gives none
DefaultPort == 9222

\* elements a backend may list: two endpoints for id "a" (the endpoint moves
\* between discoveries), an element with a backend socket URL only, an
\* element with neither, and null
LeafRawTargets ==
    {RawTarget(<<"a">>, WsB1), RawTarget(<<"a">>, WsB2),
     RawTarget(<<>>, WsB1), RawTarget(<<>>, <<>>), Null}

\* bodies: empty, not JSON, JSON that is no array, an array of n elements at most
Bodies(elements, n) ==
    {[kind |-> k, targets |-> <<>>] : k \in {"empty", "text", "object"}}
    \cup {[kind |-> "array", targets |-> b] : b \in StringsUpTo(elements, n)}

\* what the request callback may be called with: (error, response, body)
Responses(elements, n) ==
    [error : BOOLEAN, hasResponse : BOOLEAN, statusCode : {200, 500},
     body : Bodies(elements, n)]

\* the malformed responses: request error, no response, a status other than
\* 200, an empty body, a body that is not JSON, JSON that is not an array
Malformed(resp) ==
    \/ resp.error
    \/ ~resp.hasResponse
    \/ resp.statusCode # 200
    \/ resp.body.kind # "array"

LeafMetadata == {[tag |-> "m"]}

\* target ids a client may ask for: listed ones, an unlisted one, none
LeafTargetIds == {<<"a">>, WsB1, <<"z">>, <<>>}

\* client sockets; 0: no socket
Clients == {0, 1, 2}

IdleCall ==
    [state |-> "idle", metadata |-> Null, responded |-> FALSE,
     result |-> <<>>, malformed |-> FALSE, listed |-> <<>>]

NoConnect ==
    [url |-> <<>>, inst |-> 0, targetId |-> <<>>, ws |-> 0, target |-> 0,
     reuse |-> "none"]

----------------------------------------------------------------------------
(* SpecLeaf: one Adapter without a managed executable                      *)

DecodeIdle ==
    /\ url = <<>>
    /\ wsId = NoWebSocketId
    /\ decPc = "idle"

\* getProtocolFor has not been called
NoProtocol == "none"

\* processDeviceVersions has not returned
NotProcessed == [done |-> FALSE, list |-> <<>>]

\* no forwardTo call yet
NoForward ==
    [url |-> <<>>, message |-> <<>>, throws |-> FALSE, inst |-> 0,
     target |-> 0, raised |-> FALSE]

\* createTestTargets has not returned
NoTestTargets == [done |-> FALSE, list |-> <<>>]

\* neither forwardTo nor the TestAdapter is under study
\* no discovery cycle of the device pipeline has been recorded
NoCycle == [enumerated |-> <<>>, refused |-> {}]

FwdIdle ==
    /\ cycle = NoCycle
    /\ lastForward = NoForward
    /\ fixtureTargets = <<>>
    /\ testTargets = NoTestTargets

\* neither getProtocolFor nor processDeviceVersions is under study
VerIdle ==
    /\ version = <<>>
    /\ protocol = NoProtocol
    /\ devices = <<>>
    /\ processedDevices = NotProcessed

RegIdle ==
    /\ adapters = <<>>
    /\ targets = <<>>
    /\ calls = <<>>
    /\ lastConnect = NoConnect
    /\ preStop = {}
    /\ coll = Null

\* no stop() call yet; n alternates with every call, threw says whether
\* kill() threw in it, raised whether the call threw to its caller
NoStop == [n |-> 0, threw |-> FALSE, raised |-> FALSE]

ProcIdle ==
    /\ options = [proxyExePath |-> FALSE, proxyExeArgs |-> FALSE]
    /\ proxyProc = 0
    /\ procs = <<>>
    /\ ops = <<>>
    /\ lastStop = NoStop

InitLeaf ==
    /\ FwdIdle
    /\ VerIdle
    /\ DecodeIdle
    /\ ProcIdle
    /\ adapters = <<NewAdapter(LeafId, DefaultPort)>>
    /\ targets = <<>>
    /\ calls = [c \in 1..MaxCalls |-> IdleCall]
    /\ lastConnect = NoConnect
    /\ preStop = {}
    /\ coll = Null

\* getTargets(metadata): arms the 10 s timer and issues the request
GetTargets(c, metadata) ==
    /\ \/ calls[c].state = "idle"
       \/ calls[c].state = "resolved" /\ calls[c].responded
    /\ calls' = [calls EXCEPT ![c] =
                    [IdleCall EXCEPT !.state = "pending",
                                     !.metadata = metadata]]
    /\ UNCHANGED <<adapters, targets, lastConnect, preStop, coll, otherThanReg>>

\* the 10 s timer fires before the request callback: resolve([])
GetTargetsTimeout(c) ==
    /\ calls[c].state = "pending"
    /\ ~calls[c].responded
    /\ calls' = [calls EXCEPT ![c].state = "resolved", ![c].result = <<>>]
    /\ UNCHANGED <<adapters, targets, lastConnect, preStop, coll, otherThanReg>>

\* the request callback runs (once per request); a promise that the timer
\* has resolved keeps its value
GetTargetsResponse(c, resp) ==
    /\ calls[c].state # "idle"
    /\ ~calls[c].responded
    /\ LET r == RequestCallback(adapters[1], resp, calls[c].metadata)
       IN  /\ adapters' = [adapters EXCEPT ![1] = r.adapter]
           /\ calls' = [calls EXCEPT
                  ![c].responded = TRUE,
                  ![c].malformed = Malformed(resp),
                  ![c].listed = IF calls[c].state = "pending"
                                     /\ Len(r.targets) > 0
                                THEN SelectSeq(resp.body.targets, ValidTarget)
                                ELSE <<>>,
                  ![c].state = "resolved",
                  ![c].result = IF calls[c].state = "pending"
                                THEN r.targets ELSE @]
    /\ UNCHANGED <<targets, lastConnect, preStop, coll, otherThanReg>>

\* connectTo(targetId, wsFrom)
ConnectTo(targetId, wsFrom, throws) ==
    LET r == AdapterConnectTo(1, targetId, wsFrom, throws)
    IN  /\ Len(r.targets) <= MaxTargets
        /\ adapters' = r.adapters
        /\ targets' = r.targets
        /\ lastConnect' = [url |-> <<>>, inst |-> 1, targetId |-> targetId,
                           ws |-> wsFrom, target |-> r.target,
                           reuse |-> r.reuse]
        /\ UNCHANGED <<calls, preStop, coll, otherThanReg>>

\* stop()
Stop ==
    /\ adapters' = [adapters EXCEPT ![1] = AdapterStop(@)]
    /\ preStop' = Registered(1)
    /\ UNCHANGED <<targets, calls, lastConnect, coll, otherThanReg>>

\* the bridge of session t reports closure: the Target emits 'socketClosed',
\* which the adapter's listener re-emits
SocketClosed(t) ==
    /\ ~targets[t].closed
    /\ targets' = [targets EXCEPT ![t].closed = TRUE]
    /\ UNCHANGED <<adapters, calls, lastConnect, preStop, coll, otherThanReg>>

NextLeaf ==
    \/ \E c \in 1..MaxCalls, m \in LeafMetadata : GetTargets(c, m)
    \/ \E c \in 1..MaxCalls : GetTargetsTimeout(c)
    \/ \E c \in 1..MaxCalls, resp \in Responses(LeafRawTargets, MaxBody) :
           GetTargetsResponse(c, resp)
    \/ \E t \in LeafTargetIds, ws \in Clients, throws \in BOOLEAN :
           ConnectTo(t, ws, throws)
    \/ Stop
    \/ \E t \in DOMAIN targets : SocketClosed(t)

SpecLeaf == InitLeaf /\ [][NextLeaf]_vars

----------------------------------------------------------------------------
(* SpecDecode: getWebSocketId applied to every bounded address             *)

AddrAlphabet == {"/", "A", "B", "C"}

Addresses == StringsUpTo(AddrAlphabet, MaxAddrLen)

InitDecode ==
    /\ FwdIdle
    /\ VerIdle
    /\ url \in Addresses
    /\ wsId = NoWebSocketId
    /\ decPc = "start"
    /\ RegIdle
    /\ ProcIdle

Decode ==
    /\ decPc = "start"
    /\ wsId' = getWebSocketId(url)
    /\ decPc' = "done"
    /\ UNCHANGED <<url, otherThanDec>>

NextDecode == Decode

SpecDecode == InitDecode /\ [][NextDecode]_vars

----------------------------------------------------------------------------
(* SpecProc: the managed process of one Adapter                            *)

\* a process is live until it has exited or failed to spawn
Live(p) == procs[p] \in {"running", "signalled"}

\* ChildProcess.kill('SIGTERM')
Kill(ps, p) == IF ps[p] = "running" THEN [ps EXCEPT ![p] = "signalled"] ELSE ps

NewOp(kind) ==
    [kind |-> kind, pc |-> "start", outcome |-> "pending", pid |-> 0,
     old |-> 0, processResolved |-> FALSE, timer |-> "none", handle |-> 0]

\* the call settles with this outcome while the handle holds h
Settle(op, outcome, h) ==
    [op EXCEPT !.pc = "done", !.outcome = outcome, !.handle = h]

\* a spawnProcess without the test of the handle
SpawnProcess_NoGuard(op, throws) ==
    IF ~options.proxyExePath
    THEN [proxyProc |-> proxyProc, procs |-> procs,
          op |-> Settle(op, "no path", proxyProc)]
    ELSE IF throws
    THEN [proxyProc |-> proxyProc, procs |-> procs,
          op |-> Settle(op, "spawn error", proxyProc)]
    ELSE [proxyProc |-> Len(procs) + 1,
          procs |-> Append(procs, "running"),
          op |-> [op EXCEPT !.pc = "grace", !.pid = Len(procs) + 1,
                            !.timer = "armed"]]

\* the executor of spawnProcess(path, args), run on behalf of call op;
\* throws says whether spawn() throws
SpawnProcess(op, throws) ==
    IF proxyProc # 0
    THEN [proxyProc |-> proxyProc, procs |-> procs,
          op |-> Settle(op, "already started", proxyProc)]
    ELSE IF ~options.proxyExePath
    THEN [proxyProc |-> proxyProc, procs |-> procs,
          op |-> Settle(op, "no path", proxyProc)]
    ELSE IF throws
    THEN [proxyProc |-> proxyProc, procs |-> procs,
          op |-> Settle(op, "spawn error", proxyProc)]
    ELSE [proxyProc |-> Len(procs) + 1,
          procs |-> Append(procs, "running"),
          op |-> [op EXCEPT !.pc = "grace", !.pid = Len(procs) + 1,
                            !.timer = "armed"]]

InitProc ==
    /\ FwdIdle
    /\ VerIdle
    /\ DecodeIdle
    /\ RegIdle
    /\ options \in {[proxyExePath |-> TRUE, proxyExeArgs |-> TRUE],
                    [proxyExePath |-> TRUE, proxyExeArgs |-> FALSE],
                    [proxyExePath |-> FALSE, proxyExeArgs |-> FALSE]}
    /\ proxyProc = 0
    /\ procs = <<>>
    /\ ops = <<>>
    /\ lastStop = NoStop

\* start()
Start(throws) ==
    /\ Len(ops) < MaxOps
    /\ IF ~options.proxyExePath
       THEN /\ ops' = Append(ops, Settle(NewOp("start"), "skipped", proxyProc))
            /\ UNCHANGED <<proxyProc, procs>>
       ELSE LET r == SpawnProcess(NewOp("start"), throws)
            IN  /\ Len(r.procs) <= MaxProcs
                /\ proxyProc' = r.proxyProc
                /\ procs' = r.procs
                /\ ops' = Append(ops, r.op)
    /\ UNCHANGED <<options, lastStop, otherThanProc>>

\* a stop() that signals the process but keeps the handle
StopProc_KeepsHandle(killThrows) ==
    /\ IF proxyProc # 0 /\ ~killThrows
       THEN procs' = Kill(procs, proxyProc)
       ELSE UNCHANGED procs
    /\ lastStop' = [n |-> 1 - lastStop.n,
                    threw |-> proxyProc # 0 /\ killThrows,
                    raised |-> FALSE]
    /\ UNCHANGED <<options, proxyProc, ops, otherThanProc>>

\* stop(); killThrows says whether kill() throws: the catch logs the error,
\* the assignment after kill() is skipped
StopProc(killThrows) ==
    /\ IF proxyProc # 0 /\ ~killThrows
       THEN /\ procs' = Kill(procs, proxyProc)
            /\ proxyProc' = 0
       ELSE UNCHANGED <<proxyProc, procs>>
    /\ lastStop' = [n |-> 1 - lastStop.n,
                    threw |-> proxyProc # 0 /\ killThrows,
                    raised |-> FALSE]
    /\ UNCHANGED <<options, ops, otherThanProc>>

\* forceRefresh() up to the 1 s delay of refreshProcess
Refresh(killThrows) ==
    /\ Len(ops) < MaxOps
    /\ IF proxyProc # 0 /\ options.proxyExePath /\ options.proxyExeArgs
       THEN IF killThrows
            THEN /\ ops' = Append(ops,
                     Settle([NewOp("refresh") EXCEPT !.old = proxyProc],
                            "kill error", proxyProc))
                 /\ UNCHANGED procs
            ELSE /\ procs' = Kill(procs, proxyProc)
                 /\ ops' = Append(ops, [NewOp("refresh") EXCEPT
                                           !.pc = "delay", !.old = proxyProc])
       ELSE /\ ops' = Append(ops, Settle(NewOp("refresh"), "nothing", proxyProc))
            /\ UNCHANGED procs
    /\ UNCHANGED <<options, lastStop, proxyProc, otherThanProc>>

\* the 1 s delay of refreshProcess is over: spawnProcess(path, args)
RefreshSpawn(o, throws) ==
    /\ ops[o].pc = "delay"
    /\ LET r == SpawnProcess(ops[o], throws)
       IN  /\ Len(r.procs) <= MaxProcs
           /\ proxyProc' = r.proxyProc
           /\ procs' = r.procs
           /\ ops' = [ops EXCEPT ![o] = r.op]
    /\ UNCHANGED <<options, lastStop, otherThanProc>>

\* listeners without the processResolved guard: every event settles the call
ProcEmit_NoGuard(p, ev) ==
    /\ \/ ev = "error" /\ procs[p] \in {"running", "signalled"}
       \/ ev = "exit" /\ procs[p] \in {"running", "signalled", "failed"}
       \/ ev = "close" /\ procs[p] \in {"failed", "exited"}
    /\ procs' = [procs EXCEPT ![p] =
                    CASE ev = "error" -> "failed"
                      [] ev = "exit" -> "exited"
                      [] OTHER -> "closed"]
    /\ ops' = [o \in DOMAIN ops |->
                  IF ops[o].pid = p
                  THEN Settle([ops[o] EXCEPT !.processResolved = TRUE],
                              ev, proxyProc)
                  ELSE ops[o]]
    /\ UNCHANGED <<options, lastStop, proxyProc, otherThanProc>>

\* listeners that give up the handle of a process that failed to start
ProcEmit_ClearsHandle(p, ev) ==
    /\ \/ ev = "error" /\ procs[p] \in {"running", "signalled"}
       \/ ev = "exit" /\ procs[p] \in {"running", "signalled", "failed"}
       \/ ev = "close" /\ procs[p] \in {"failed", "exited"}
    /\ procs' = [procs EXCEPT ![p] =
                    CASE ev = "error" -> "failed"
                      [] ev = "exit" -> "exited"
                      [] OTHER -> "closed"]
    /\ ops' = [o \in DOMAIN ops |->
                  IF ops[o].pid = p /\ ~ops[o].processResolved
                  THEN Settle([ops[o] EXCEPT !.processResolved = TRUE],
                              ev, proxyProc)
                  ELSE ops[o]]
    /\ proxyProc' = IF \E o \in DOMAIN ops :
                         ops[o].pid = p /\ ~ops[o].processResolved
                    THEN 0 ELSE proxyProc
    /\ UNCHANGED <<options, lastStop, otherThanProc>>

\* process p emits 'error', 'exit' or 'close'; the listeners of the
\* spawnProcess call that spawned it run
ProcEmit(p, ev) ==
    /\ \/ ev = "error" /\ procs[p] \in {"running", "signalled"}
       \/ ev = "exit" /\ procs[p] \in {"running", "signalled", "failed"}
       \/ ev = "close" /\ procs[p] \in {"failed", "exited"}
    /\ procs' = [procs EXCEPT ![p] =
                    CASE ev = "error" -> "failed"
                      [] ev = "exit" -> "exited"
                      [] OTHER -> "closed"]
    /\ ops' = [o \in DOMAIN ops |->
                  IF ops[o].pid = p /\ ~ops[o].processResolved
                  THEN Settle([ops[o] EXCEPT !.processResolved = TRUE],
                              ev, proxyProc)
                  ELSE ops[o]]
    /\ UNCHANGED <<options, lastStop, proxyProc, otherThanProc>>

\* the 200 ms timer of the spawnProcess call of o fires
GraceTimer(o) ==
    /\ ops[o].timer = "armed"
    /\ ops' = [ops EXCEPT ![o] =
                  IF ops[o].processResolved
                  THEN [@ EXCEPT !.timer = "fired"]
                  ELSE Settle([@ EXCEPT !.timer = "fired",
                                        !.processResolved = TRUE],
                              "resolved", proxyProc)]
    /\ UNCHANGED <<options, lastStop, proxyProc, procs, otherThanProc>>

NextProc ==
    \/ \E throws \in BOOLEAN : Start(throws)
    \/ \E killThrows \in BOOLEAN : StopProc(killThrows)
    \/ \E killThrows \in BOOLEAN : Refresh(killThrows)
    \/ \E o \in DOMAIN ops, throws \in BOOLEAN : RefreshSpawn(o, throws)
    \/ \E p \in DOMAIN procs, ev \in {"error", "exit", "close"} : ProcEmit(p, ev)
    \/ \E o \in DOMAIN ops : GraceTimer(o)

SpecProc == InitProc /\ [][NextProc]_vars

----------------------------------------------------------------------------
(* More JavaScript primitives                                              *)

Digits == <<"0", "1", "2", "3", "4", "5", "6", "7", "8", "9">>

IsDigit(c) == \E n \in DOMAIN Digits : Digits[n] = c

DigitValue(c) == (CHOOSE n \in DOMAIN Digits : Digits[n] = c) - 1

\* s.split(sep) for a one-character sep
RECURSIVE Split(_, _)
Split(s, sep) ==
    LET i == IndexOf(s, sep, 0)
    IN  IF i = -1 THEN <<s>>
        ELSE <<Substr(s, 0, i)>> \o Split(SubstrFrom(s, i + 1), sep)

NaN == [nan |-> TRUE]

RECURSIVE DigitsPrefix(_, _)
DigitsPrefix(s, acc) ==
    IF s = <<>> \/ ~IsDigit(Head(s)) THEN acc
    ELSE DigitsPrefix(Tail(s), 10 * acc + DigitValue(Head(s)))

\* parseInt(s, 10): an optional sign, then the longest run of digits
parseInt(s) ==
    LET signed == s # <<>> /\ Head(s) \in {"-", "+"}
        body   == IF signed THEN Tail(s) ELSE s
    IN  IF body = <<>> \/ ~IsDigit(Head(body)) THEN NaN
        ELSE [nan |-> FALSE,
              value |-> IF signed /\ Head(s) = "-"
                        THEN 0 - DigitsPrefix(body, 0)
                        ELSE DigitsPrefix(body, 0)]

\* a Map as the sequence of its entries in insertion order
HasKey(map, key) == \E i \in DOMAIN map : map[i].adapterId = key

MapGet(map, key) == map[CHOOSE i \in DOMAIN map : map[i].adapterId = key].inst

\* map.set(key, inst): a new key goes last, a known key keeps its place
MapSet(map, key, inst) ==
    IF HasKey(map, key)
    THEN [i \in DOMAIN map |->
             IF map[i].adapterId = key THEN [map[i] EXCEPT !.inst = inst]
             ELSE map[i]]
    ELSE Append(map, [adapterId |-> key, inst |-> inst])

RECURSIVE Concat(_)
Concat(lists) ==
    IF lists = <<>> THEN <<>> ELSE Head(lists) \o Concat(Tail(lists))

----------------------------------------------------------------------------
(* AdapterCollection                                                       *)

\* a forEach that reads the metadata of every child at index 0
StartChildren_FirstEntry(registry, metadata) ==
    [i \in DOMAIN registry |->
        [adapterId |-> registry[i].adapterId,
         inst      |-> registry[i].inst,
         metadata  |-> IF metadata = Null THEN Null
                       ELSE IF metadata.isArray
                            THEN IF 1 <= Len(metadata.value)
                                 THEN metadata.value[1] ELSE Null
                            ELSE metadata.value,
         state     |-> "pending",
         responded |-> FALSE,
         result    |-> <<>>]]

\* the forEach of AdapterCollection.getTargets(metadata): one getTargets call
\* per child in registry order, the child at index i given metadata[i] when
\* metadata is an array and metadata itself otherwise
StartChildren(registry, metadata) ==
    [i \in DOMAIN registry |->
        [adapterId |-> registry[i].adapterId,
         inst      |-> registry[i].inst,
         metadata  |-> IF metadata = Null THEN Null
                       ELSE IF metadata.isArray
                            THEN IF i <= Len(metadata.value)
                                 THEN metadata.value[i] ELSE Null
                            ELSE metadata.value,
         state     |-> "pending",
         responded |-> FALSE,
         result    |-> <<>>]]

\* AdapterCollection.connectTo(url, wsFrom): the child connectTo it
\* delegates to (inst 0: none) and what that returns
CollectionConnectTo(u, wsFrom, throws) ==
    LET id == getWebSocketId(u)
    IN  IF u = <<>> \/ wsFrom = 0 \/ ~id.ok
        THEN [inst |-> 0, targetId |-> <<>>, r |-> ConnectNull]
        ELSE IF ~HasKey(coll.adapters, id.adapterId)
        THEN [inst |-> 0, targetId |-> <<>>, r |-> ConnectNull]
        ELSE [inst     |-> MapGet(coll.adapters, id.adapterId),
              targetId |-> id.targetId,
              r        |-> AdapterConnectTo(MapGet(coll.adapters, id.adapterId),
                                            id.targetId, wsFrom, throws)]

\* AdapterCollection.forwardTo(url, message): the child forwardTo it
\* delegates to (inst 0: none) and what that does
CollectionForwardTo(u, message, throws) ==
    LET id == getWebSocketId(u)
        none == [inst |-> 0, target |-> 0, targets |-> targets]
    IN  IF u = <<>> THEN none
        ELSE IF message = <<>> THEN none
        ELSE IF ~id.ok THEN none
        ELSE IF ~HasKey(coll.adapters, id.adapterId) THEN none
        ELSE LET inst == MapGet(coll.adapters, id.adapterId)
                 r    == AdapterForwardTo(inst, id.targetId, message, throws)
             IN  [inst |-> inst, target |-> r.target, targets |-> r.targets]

\* AdapterCollection.stop(): super.stop(), then stop() of every registered
\* child; the registry itself is left as it is
CollectionStop ==
    [coll |-> AdapterStop(coll),
     adapters |-> [i \in DOMAIN adapters |->
                     IF \E k \in DOMAIN coll.adapters : coll.adapters[k].inst = i
                     THEN AdapterStop(adapters[i]) ELSE adapters[i]]]

\* a refresh that gives up at the first child whose forceRefresh fails
CollectionRefresh_StopsAtFailure(superFails, failing) ==
    [coll |-> coll, adapters |-> adapters, targets |-> targets,
     attempted |-> [k \in {i \in DOMAIN coll.adapters :
                              \A j \in 1..(i - 1) : j \notin failing} |->
                       coll.adapters[k].adapterId],
     raised |-> FALSE]

\* AdapterCollection.forceRefresh(): super.forceRefresh(), whose failure is
\* logged, then forceRefresh() of every registered child, each with its own
\* catch, awaited with Promise.allSettled.  Adapter.forceRefresh relaunches
\* through refreshProcess and catches what that throws; neither touches a
\* registry.  superFails: the relaunch of the collection's own process
\* fails; failing: the registry positions whose forceRefresh rejects or
\* throws.  attempted: the children whose forceRefresh was called
CollectionRefresh(superFails, failing) ==
    [coll |-> coll, adapters |-> adapters, targets |-> targets,
     attempted |-> [k \in DOMAIN coll.adapters |-> coll.adapters[k].adapterId],
     raised |-> FALSE]

----------------------------------------------------------------------------
(* IOSAdapter                                                              *)

\* the id the IOSAdapter is constructed with ("/i")
IosId == <<"/", "i">>

Simulator == <<"S", "I", "M", "U", "L", "A", "T", "O", "R">>

\* '9.3.0'
FallbackVersion == <<"9", ".", "3", ".", "0">>

\* an element of the enumeration response
Device(deviceId, deviceOSVersion, u) ==
    [deviceId |-> deviceId, deviceOSVersion |-> deviceOSVersion, url |-> u]

\* a normalization that takes the reported OS version before it looks at the
\* device id
RECURSIVE processDeviceVersions_ReportedFirst(_)
processDeviceVersions_ReportedFirst(ds) ==
    IF ds = <<>> THEN <<>>
    ELSE LET d == Head(ds)
         IN  IF d = Null THEN processDeviceVersions_ReportedFirst(Tail(ds))
             ELSE <<[deviceId        |-> d.deviceId,
                     deviceOSVersion |-> d.deviceOSVersion,
                     url             |-> d.url,
                     version         |->
                         IF d.deviceOSVersion # <<>> THEN d.deviceOSVersion
                         ELSE FallbackVersion]>>
                  \o processDeviceVersions_ReportedFirst(Tail(ds))

\* processDeviceVersions: null entries are dropped, the others get a version
RECURSIVE processDeviceVersions(_)
processDeviceVersions(ds) ==
    IF ds = <<>> THEN <<>>
    ELSE LET d == Head(ds)
         IN  IF d = Null THEN processDeviceVersions(Tail(ds))
             ELSE <<[deviceId        |-> d.deviceId,
                     deviceOSVersion |-> d.deviceOSVersion,
                     url             |-> d.url,
                     version         |->
                         IF d.deviceId = Simulator THEN FallbackVersion
                         ELSE IF d.deviceOSVersion # <<>>
                              THEN d.deviceOSVersion
                              ELSE FallbackVersion]>>
                  \o processDeviceVersions(Tail(ds))

\* `${this._id}_${d.deviceId}`
DeviceAdapterId(deviceId) == IosId \o <<"_">> \o deviceId

\* a loop that takes every port parseInt reads, zero and negative ones too
RECURSIVE DevicesToCreate_AnyPort(_, _)
DevicesToCreate_AnyPort(registry, ds) ==
    IF ds = <<>> THEN <<>>
    ELSE LET d    == Head(ds)
             rest == DevicesToCreate_AnyPort(registry, Tail(ds))
         IN  IF d = Null THEN rest
             ELSE IF d.deviceId = <<>> THEN rest
             ELSE IF HasKey(registry, DeviceAdapterId(d.deviceId)) THEN rest
             ELSE IF d.url = <<>> THEN rest
             ELSE IF Len(Split(d.url, ":")) <= 1 THEN rest
             ELSE LET port == parseInt(Split(d.url, ":")[2])
                  IN  IF port = NaN THEN rest
                      ELSE <<[adapterId |-> DeviceAdapterId(d.deviceId),
                              port |-> port.value]>> \o rest

\* the forEach of createDeviceAdapters: the devices an adapter is created
\* for, each test made against the registry as it is when the loop runs
RECURSIVE DevicesToCreate(_, _)
DevicesToCreate(registry, ds) ==
    IF ds = <<>> THEN <<>>
    ELSE LET d    == Head(ds)
             rest == DevicesToCreate(registry, Tail(ds))
         IN  IF d = Null THEN rest
             ELSE IF d.deviceId = <<>> THEN rest
             ELSE IF HasKey(registry, DeviceAdapterId(d.deviceId)) THEN rest
             ELSE IF d.url = <<>> THEN rest
             ELSE IF Len(Split(d.url, ":")) <= 1 THEN rest
             ELSE LET port == parseInt(Split(d.url, ":")[2])
                  IN  IF port = NaN THEN rest
                      ELSE IF port.value <= 0 THEN rest
                      ELSE <<[adapterId |-> DeviceAdapterId(d.deviceId),
                              port |-> port.value]>> \o rest

\* createSingleDeviceAdapter for each of them, in order: the new Adapter has
\* no proxyExePath, so its start() resolves 'skipped' and it is registered
RECURSIVE CreateAdapters(_, _, _)
CreateAdapters(registry, heap, toCreate) ==
    IF toCreate = <<>> THEN [registry |-> registry, heap |-> heap]
    ELSE CreateAdapters(
             MapSet(registry, Head(toCreate).adapterId, Len(heap) + 1),
             Append(heap, NewAdapter(Head(toCreate).adapterId,
                                     Head(toCreate).port)),
             Tail(toCreate))

\* a selection that takes the newest protocol from minor version 1 on
getProtocolFor_MinorFromOne(v) ==
    IF v = <<>> THEN "IOS9Protocol"
    ELSE LET parts == Split(v, ".")
             major == parseInt(parts[1])
         IN  IF major = NaN THEN "IOS9Protocol"
             ELSE IF major.value <= 8 THEN "IOS8Protocol"
             ELSE IF Len(parts) > 1
                     /\ parseInt(parts[2]) # NaN
                     /\ (\/ major.value > 12
                         \/ major.value >= 12 /\ parseInt(parts[2]).value >= 1)
                  THEN "IOS12Protocol"
             ELSE "IOS9Protocol"

\* getProtocolFor(version, target): which protocol class is constructed
getProtocolFor(v) ==
    IF v = <<>> THEN "IOS9Protocol"
    ELSE LET parts == Split(v, ".")
             major == parseInt(parts[1])
         IN  IF major = NaN THEN "IOS9Protocol"
             ELSE IF major.value <= 8 THEN "IOS8Protocol"
             ELSE IF Len(parts) > 1
                     /\ parseInt(parts[2]) # NaN
                     /\ (\/ major.value > 12
                         \/ major.value >= 12 /\ parseInt(parts[2]).value >= 2)
                  THEN "IOS12Protocol"
             ELSE "IOS9Protocol"

\* the protocol set-up of IOSAdapter.connectTo for the target it obtained
BindProtocol(protocolMap, target, t) ==
    IF target \in DOMAIN protocolMap THEN protocolMap
    ELSE IF t.data.metadata = Null THEN protocolMap
    ELSE IF t.data.metadata.version = <<>> THEN protocolMap
    ELSE (target :> getProtocolFor(t.data.metadata.version)) @@ protocolMap

\* a connect that selects the protocol again on every call, from the
\* descriptor the owning adapter holds for the target at that moment
IosConnect_Rebinds(u, wsFrom, throws, selectThrows) ==
    LET routed == CollectionConnectTo(u, wsFrom, throws)
        target == routed.r.target
        stored == routed.r.adapters[routed.inst].targetData[routed.targetId]
    IN  [target      |-> target,
         adapters    |-> routed.r.adapters,
         targets     |-> routed.r.targets,
         protocolMap |->
             IF target = 0 \/ selectThrows THEN coll.protocolMap
             ELSE BindProtocol(<<>>, target, [data |-> stored])
                      @@ coll.protocolMap]

\* a connect that gives the session up when no protocol could be bound
IosConnect_NullUnbound(u, wsFrom, throws, selectThrows) ==
    LET routed == CollectionConnectTo(u, wsFrom, throws)
        target == routed.r.target
        bound  == IF target = 0 \/ selectThrows THEN coll.protocolMap
                  ELSE BindProtocol(coll.protocolMap, target,
                                    routed.r.targets[target])
    IN  [target      |-> IF target \in DOMAIN bound THEN target ELSE 0,
         adapters    |-> routed.r.adapters,
         targets     |-> routed.r.targets,
         protocolMap |-> bound]

\* IOSAdapter.connectTo(url, wsFrom): what it returns and the registries
\* after it; throws says whether constructing or connecting a new Target
\* throws, selectThrows whether constructing the protocol does
IosConnect(u, wsFrom, throws, selectThrows) ==
    LET routed == CollectionConnectTo(u, wsFrom, throws)
        target == routed.r.target
    IN  [target      |-> target,
         adapters    |-> routed.r.adapters,
         targets     |-> routed.r.targets,
         protocolMap |->
             IF target = 0 \/ selectThrows THEN coll.protocolMap
             ELSE BindProtocol(coll.protocolMap, target,
                               routed.r.targets[target])]

----------------------------------------------------------------------------
(* Inputs of the IOSAdapter                                                *)

\* devices the enumeration may list: "a" with an OS version, "b" without one
IosDevices ==
    {Device(<<"a">>, <<"1", "2", ".", "2">>, <<"h", ":", "1">>),
     Device(<<"b">>, <<>>, <<"h", ":", "2">>)}

\* what a device's backend may list: a target whose id holds a slash
IosRawTargets ==
    {RawTarget(<<"x", "/", "y">>, WsB2)}

\* addresses a client may connect to: every listed target of every device,
\* an address with no second slash, an unknown namespace, none
ConnectUrls ==
    {DeviceAdapterId(d) \o <<"/">> \o t :
        d \in {<<"a">>, <<"b">>}, t \in {<<"x", "/", "y">>}}
    \cup {DeviceAdapterId(<<"a">>), DeviceAdapterId(<<"z">>) \o <<"/", "x">>,
          <<>>}

\* the ways a response fails, one at a time, and the well-formed responses
Faults(resp) ==
    {f \in {"error", "response", "status", "body"} :
        \/ f = "error" /\ resp.error
        \/ f = "response" /\ ~resp.hasResponse
        \/ f = "status" /\ resp.statusCode # 200
        \/ f = "body" /\ resp.body.kind # "array"}

SingleFault(elements, n) ==
    {resp \in Responses(elements, n) :
        \/ Faults(resp) = {}
        \/ Cardinality(Faults(resp)) = 1 /\ resp.body.targets = <<>>}

IosDeviceResponses == SingleFault(IosDevices, MaxDevices)

IosTargetResponses == SingleFault(IosRawTargets, MaxBody)

IdleIosCall ==
    [state |-> "idle", responded |-> FALSE, children |-> <<>>,
     result |-> <<>>]

\* the request and every child request of the call have called back
Finished(call) ==
    /\ call.state = "resolved"
    /\ call.responded
    /\ \A i \in DOMAIN call.children : call.children[i].responded

\* a join that gives up at the first child that contributed nothing
Join_StopAtFirstEmpty(call) ==
    IF /\ call.state = "children"
       /\ \A i \in DOMAIN call.children : call.children[i].state = "resolved"
    THEN LET upTo == {i \in DOMAIN call.children :
                        \A j \in 1..i : call.children[j].result # <<>>}
         IN  [call EXCEPT !.state = "resolved",
                          !.result = Concat([i \in 1..Cardinality(upTo) |->
                                                call.children[i].result])]
    ELSE call

\* Promise.all over the children: once every child call has resolved, the
\* results are concatenated in child order
Join(call) ==
    IF /\ call.state = "children"
       /\ \A i \in DOMAIN call.children : call.children[i].state = "resolved"
    THEN [call EXCEPT !.state = "resolved",
                      !.result = Concat([i \in DOMAIN call.children |->
                                            call.children[i].result])]
    ELSE call

----------------------------------------------------------------------------
(* SpecColl: an IOSAdapter and the device adapters it creates              *)

InitColl ==
    /\ FwdIdle
    /\ VerIdle
    /\ DecodeIdle
    /\ ProcIdle
    /\ coll = [id |-> IosId, proxyProc |-> 0, adapters |-> <<>>,
               protocolMap |-> <<>>]
    /\ adapters = <<>>
    /\ targets = <<>>
    /\ calls = [c \in 1..MaxCalls |-> IdleIosCall]
    /\ lastConnect = NoConnect
    /\ preStop = {}

\* IOSAdapter.getTargets(): getDevicesFromProxy arms its timer and issues
\* the enumeration request
IosGetTargets(c) ==
    /\ calls[c].state = "idle" \/ Finished(calls[c])
    /\ calls' = [calls EXCEPT ![c] = [IdleIosCall EXCEPT !.state = "devices"]]
    /\ UNCHANGED <<adapters, targets, lastConnect, preStop, coll, otherThanReg>>

\* the 10 s timer of getDevicesFromProxy fires first: no devices, return []
IosDevicesTimeout(c) ==
    /\ calls[c].state = "devices"
    /\ ~calls[c].responded
    /\ calls' = [calls EXCEPT ![c].state = "resolved", ![c].result = <<>>]
    /\ UNCHANGED <<adapters, targets, lastConnect, preStop, coll, otherThanReg>>

\* a pipeline that first drops the children of devices the list no longer
\* names
ProxyCallback_DropsGone(c, resp) ==
    IF calls[c].state # "devices" \/ Malformed(resp)
       \/ resp.body.targets = <<>>
    THEN [ran |-> FALSE, coll |-> coll, adapters |-> adapters,
          calls |-> [calls EXCEPT ![c].responded = TRUE,
                                  ![c].state = "resolved"]]
    ELSE LET processed == processDeviceVersions(resp.body.targets)
             Listed(e) == \E j \in DOMAIN processed :
                             e.adapterId = DeviceAdapterId(processed[j].deviceId)
             kept == SelectSeq(coll.adapters, Listed)
             created == CreateAdapters(kept, adapters,
                            DevicesToCreate(kept, processed))
             children == StartChildren(created.registry,
                             [isArray |-> TRUE, value |-> processed])
         IN  [ran |-> TRUE,
              coll |-> [coll EXCEPT !.adapters = created.registry],
              adapters |-> created.heap,
              calls |-> [calls EXCEPT ![c] =
                    [@ EXCEPT !.responded = TRUE,
                              !.children = children,
                              !.state = IF children = <<>>
                                        THEN "resolved" ELSE "children"]]]

\* the enumeration request calls back; unless the timer has fired, the rest
\* of getTargets runs up to the child requests: processDeviceVersions,
\* createDeviceAdapters, super.getTargets(processedDevices). The result is
\* the registry, the instances and the calls after it, and whether the
\* pipeline ran
ProxyCallback(c, resp) ==
    IF calls[c].state # "devices" \/ Malformed(resp)
       \/ resp.body.targets = <<>>
    THEN [ran |-> FALSE, coll |-> coll, adapters |-> adapters,
          calls |-> [calls EXCEPT ![c].responded = TRUE,
                                  ![c].state = "resolved"]]
    ELSE LET processed == processDeviceVersions(resp.body.targets)
             created == CreateAdapters(coll.adapters, adapters,
                            DevicesToCreate(coll.adapters, processed))
             children == StartChildren(created.registry,
                             [isArray |-> TRUE, value |-> processed])
         IN  [ran |-> TRUE,
              coll |-> [coll EXCEPT !.adapters = created.registry],
              adapters |-> created.heap,
              calls |-> [calls EXCEPT ![c] =
                    [@ EXCEPT !.responded = TRUE,
                              !.children = children,
                              !.state = IF children = <<>>
                                        THEN "resolved" ELSE "children"]]]

IosDevicesResponse(c, resp) ==
    /\ calls[c].state # "idle"
    /\ ~calls[c].responded
    /\ LET r == ProxyCallback(c, resp)
       IN  /\ coll' = r.coll
           /\ adapters' = r.adapters
           /\ calls' = r.calls
    /\ UNCHANGED <<targets, lastConnect, preStop, otherThanReg>>

\* a timer whose callback only logs
ChildTimeout_LogsOnly(c, i) ==
    /\ calls[c].children[i].state = "pending"
    /\ ~calls[c].children[i].responded
    /\ UNCHANGED vars

\* the 10 s timer of the getTargets call of child i fires first
ChildTimeout(c, i) ==
    /\ calls[c].children[i].state = "pending"
    /\ ~calls[c].children[i].responded
    /\ calls' = [calls EXCEPT ![c] =
                    Join([@ EXCEPT !.children[i].state = "resolved"])]
    /\ UNCHANGED <<adapters, targets, lastConnect, preStop, coll, otherThanReg>>

\* the request of the getTargets call of child i calls back
ChildResponse(c, i, resp) ==
    /\ ~calls[c].children[i].responded
    /\ LET child == calls[c].children[i]
           r     == RequestCallback(adapters[child.inst], resp, child.metadata)
       IN  /\ adapters' = [adapters EXCEPT ![child.inst] = r.adapter]
           /\ calls' = [calls EXCEPT ![c] =
                  Join([@ EXCEPT
                      !.children[i].responded = TRUE,
                      !.children[i].state = "resolved",
                      !.children[i].result =
                          IF child.state = "pending" THEN r.targets ELSE @])]
    /\ UNCHANGED <<targets, lastConnect, preStop, coll, otherThanReg>>

\* IOSAdapter.connectTo(url, wsFrom)
IosConnectTo(u, wsFrom, throws) ==
    LET r == IosConnect(u, wsFrom, throws, FALSE)
    IN  /\ Len(r.targets) <= MaxTargets
        /\ adapters' = r.adapters
        /\ targets' = r.targets
        /\ coll' = [coll EXCEPT !.protocolMap = r.protocolMap]
        /\ UNCHANGED <<calls, lastConnect, preStop, otherThanReg>>

NextColl ==
    \/ \E c \in 1..MaxCalls : IosGetTargets(c)
    \/ \E c \in 1..MaxCalls : IosDevicesTimeout(c)
    \/ \E c \in 1..MaxCalls, resp \in IosDeviceResponses :
           IosDevicesResponse(c, resp)
    \/ \E c \in 1..MaxCalls : \E i \in DOMAIN calls[c].children :
           ChildTimeout(c, i)
    \/ \E c \in 1..MaxCalls : \E i \in DOMAIN calls[c].children :
           \E resp \in IosTargetResponses :
               ChildResponse(c, i, resp)
    \/ \E u \in ConnectUrls, ws \in {0, 1}, throws \in BOOLEAN :
           IosConnectTo(u, ws, throws)

SpecColl == InitColl /\ [][NextColl]_vars

\* the timers armed by getDevicesFromProxy and by every child getTargets run
\* on the event loop: an armed timer that is not cleared fires
SpecCollFair ==
    /\ SpecColl
    /\ \A c \in 1..MaxCalls : WF_vars(IosDevicesTimeout(c))
    /\ \A c \in 1..MaxCalls : \A i \in 1..MaxDevices :
           WF_vars(i \in DOMAIN calls[c].children /\ ChildTimeout(c, i))

----------------------------------------------------------------------------
(* SpecVersion: getProtocolFor applied to every bounded version string     *)

VersionAlphabet == {"0", "1", "2", "3", "8", "9", ".", "x"}

Versions == StringsUpTo(VersionAlphabet, MaxVerLen)

InitVersion ==
    /\ FwdIdle
    /\ version \in Versions
    /\ protocol = NoProtocol
    /\ devices = <<>>
    /\ processedDevices = NotProcessed
    /\ DecodeIdle
    /\ RegIdle
    /\ ProcIdle

\* IOSAdapter.getProtocolFor(version, target) with a target
GetProtocolFor ==
    /\ protocol = NoProtocol
    /\ protocol' = getProtocolFor(version)
    /\ UNCHANGED <<version, otherThanVer>>

NextVersion == GetProtocolFor

SpecVersion == InitVersion /\ [][NextVersion]_vars

----------------------------------------------------------------------------
(* SpecBind: protocol binding in an IOSAdapter whose devices change        *)

\* device "a" reporting 12.2 and the same device reporting 8.0
BindDevices ==
    {Device(<<"a">>, <<"1", "2", ".", "2">>, <<"h", ":", "1">>),
     Device(<<"a">>, <<"8", ".", "0">>, <<"h", ":", "1">>)}

\* the enumeration answers: every list of these devices
BindDeviceResponses ==
    {resp \in Responses(BindDevices, MaxDevices) : Faults(resp) = {}}

\* a device's backend lists its one target or nothing
BindTargetResponses ==
    {resp \in Responses(IosRawTargets, MaxBody) : Faults(resp) = {}}

BindConnectUrls ==
    {DeviceAdapterId(d) \o <<"/", "x", "/", "y">> : d \in {<<"a">>, <<"b">>}}

\* IOSAdapter.connectTo(url, wsFrom)
BindConnectTo(u, wsFrom, throws, selectThrows) ==
    LET r == IosConnect(u, wsFrom, throws, selectThrows)
        routed == CollectionConnectTo(u, wsFrom, throws)
    IN  /\ Len(r.targets) <= MaxTargets
        /\ adapters' = r.adapters
        /\ targets' = r.targets
        /\ coll' = [coll EXCEPT !.protocolMap = r.protocolMap]
        /\ lastConnect' = [url |-> u, inst |-> routed.inst,
                           targetId |-> routed.targetId, ws |-> wsFrom,
                           target |-> r.target, reuse |-> routed.r.reuse]
        /\ UNCHANGED <<calls, preStop, otherThanReg>>

NextBind ==
    \/ \E c \in 1..MaxCalls : IosGetTargets(c)
    \/ \E c \in 1..MaxCalls : IosDevicesTimeout(c)
    \/ \E c \in 1..MaxCalls, resp \in BindDeviceResponses :
           IosDevicesResponse(c, resp)
    \/ \E c \in 1..MaxCalls : \E i \in DOMAIN calls[c].children :
           ChildTimeout(c, i)
    \/ \E c \in 1..MaxCalls : \E i \in DOMAIN calls[c].children :
           \E resp \in BindTargetResponses :
               ChildResponse(c, i, resp)
    \/ \E u \in BindConnectUrls, ws \in {1, 2}, throws \in BOOLEAN,
          selectThrows \in BOOLEAN :
           BindConnectTo(u, ws, throws, selectThrows)

SpecBind == InitColl /\ [][NextBind]_vars

----------------------------------------------------------------------------
(* SpecDev: the device-discovery pipeline over lists with unusable entries *)

\* what the proxy may enumerate: device a with a usable endpoint, without
\* one, with one that has no colon, with port 0, a port that is no number,
\* a negative port and a port with trailing text; device b; an entry
\* without device id; null
DevDevices ==
    {Device(<<"a">>, <<>>, <<"h", ":", "1">>),
     Device(<<"a">>, <<>>, <<>>),
     Device(<<"a">>, <<>>, <<"h">>),
     Device(<<"a">>, <<>>, <<"h", ":", "0">>),
     Device(<<"a">>, <<>>, <<"h", ":", "x">>),
     Device(<<"a">>, <<>>, <<"h", ":", "-", "1">>),
     Device(<<"a">>, <<>>, <<"h", ":", "1", "x">>),
     Device(<<"b">>, <<>>, <<"h", ":", "2">>),
     Device(<<>>, <<>>, <<"h", ":", "3">>),
     Null}

DevDeviceResponses == SingleFault(DevDevices, MaxDevices)

\* the device ids of a list whose adapter id is not in the registry
LeftOut(registry, ds) ==
    {ds[j].deviceId : j \in {i \in DOMAIN ds :
        /\ ds[i] # Null
        /\ ds[i].deviceId # <<>>
        /\ ~HasKey(registry, DeviceAdapterId(ds[i].deviceId))}}

\* the enumeration request calls back, as in SpecColl; the list the pipeline
\* ran on and the devices it left unregistered are recorded
DevDevicesResponse(c, resp) ==
    /\ calls[c].state # "idle"
    /\ ~calls[c].responded
    /\ LET r == ProxyCallback(c, resp)
       IN  /\ coll' = r.coll
           /\ adapters' = r.adapters
           /\ calls' = r.calls
           /\ cycle' = IF r.ran
                       THEN [enumerated |-> resp.body.targets,
                             refused |-> cycle.refused \cup
                                 LeftOut(r.coll.adapters, resp.body.targets)]
                       ELSE cycle
    /\ UNCHANGED <<targets, lastConnect, preStop, decVars, procVars, verVars,
                   normVars, fwdVars, fixVars>>

NextDev ==
    \/ \E c \in 1..MaxCalls : IosGetTargets(c)
    \/ \E c \in 1..MaxCalls : IosDevicesTimeout(c)
    \/ \E c \in 1..MaxCalls, resp \in DevDeviceResponses :
           DevDevicesResponse(c, resp)
    \/ \E c \in 1..MaxCalls : \E i \in DOMAIN calls[c].children :
           ChildTimeout(c, i)

SpecDev == InitColl /\ [][NextDev]_vars

----------------------------------------------------------------------------
(* SpecOverlap: discovery calls of a device collection that overlap        *)

\* one getTargets call more than the other specifications keep in flight
OverlapCalls == 1..(MaxCalls + 1)

\* the enumeration answers: every well-formed list of devices a and b, a
\* list that names a device twice included
OverlapDeviceResponses ==
    {resp \in Responses(IosDevices, MaxDevices) : Faults(resp) = {}}

InitOverlap ==
    /\ FwdIdle
    /\ VerIdle
    /\ DecodeIdle
    /\ ProcIdle
    /\ coll = [id |-> IosId, proxyProc |-> 0, adapters |-> <<>>,
               protocolMap |-> <<>>]
    /\ adapters = <<>>
    /\ targets = <<>>
    /\ calls = [c \in OverlapCalls |-> IdleIosCall]
    /\ lastConnect = NoConnect
    /\ preStop = {}

\* each call runs on its own; a request callback or a timer with the
\* promise continuations it releases is one step, so the steps of two calls
\* interleave between the enumeration request, its answer and the timers
\* of the child requests
NextOverlap ==
    \/ \E c \in OverlapCalls : IosGetTargets(c)
    \/ \E c \in OverlapCalls : IosDevicesTimeout(c)
    \/ \E c \in OverlapCalls, resp \in OverlapDeviceResponses :
           IosDevicesResponse(c, resp)
    \/ \E c \in OverlapCalls : \E i \in DOMAIN calls[c].children :
           ChildTimeout(c, i)

SpecOverlap == InitOverlap /\ [][NextOverlap]_vars

----------------------------------------------------------------------------
(* SpecStart: start() of an AdapterCollection with managed processes       *)

\* who is started: 0 is the collection's own start (super.start()), 1.. are
\* the children in registry order
Participants == 0..MaxChildren

\* adapter.start() of participant p: the promise it returns and the process
\* behind its handle afterwards.  syncThrows: the call itself throws (a
\* child that is no Adapter); spawnThrows: spawn() throws
StartOf(p, syncThrows, spawnThrows) ==
    IF syncThrows
    THEN [start |-> [who |-> p, state |-> "thrown", outcome |-> "thrown"],
          proc  |-> procs[p]]
    ELSE IF ~options[p].proxyExePath
    THEN [start |-> [who |-> p, state |-> "fulfilled", outcome |-> "skipped"],
          proc  |-> procs[p]]
    ELSE IF procs[p] # "none"
    THEN [start |-> [who |-> p, state |-> "rejected",
                     outcome |-> "already started"],
          proc  |-> procs[p]]
    ELSE IF spawnThrows
    THEN [start |-> [who |-> p, state |-> "rejected",
                     outcome |-> "spawn error"],
          proc  |-> procs[p]]
    ELSE [start |-> [who |-> p, state |-> "pending", outcome |-> "pending"],
          proc  |-> "running"]

\* a join that fails as soon as one start has failed (Promise.all)
JoinStarts_FailFast(call) ==
    IF call.state # "waiting" THEN call
    ELSE IF \E k \in DOMAIN call.starts : call.starts[k].state = "rejected"
    THEN [call EXCEPT !.state = "rejected"]
    ELSE IF \A k \in DOMAIN call.starts : call.starts[k].state # "pending"
    THEN [call EXCEPT !.state = "fulfilled"]
    ELSE call

\* Promise.allSettled(startPromises): the call returns once every pushed
\* promise has settled, whichever way
JoinStarts(call) ==
    IF /\ call.state = "waiting"
       /\ \A k \in DOMAIN call.starts : call.starts[k].state # "pending"
    THEN [call EXCEPT !.state = "fulfilled"]
    ELSE call

InitStart ==
    /\ FwdIdle
    /\ VerIdle
    /\ DecodeIdle
    /\ RegIdle
    /\ options \in [Participants -> [proxyExePath : BOOLEAN]]
    /\ procs = [p \in Participants |-> "none"]
    /\ proxyProc = 0
    /\ ops = <<>>
    /\ lastStop = NoStop

\* AdapterCollection.start() up to the await: super.start() and every
\* child's start() are called in turn
CollStart(broken, failing) ==
    /\ IF ops = <<>> THEN TRUE ELSE ops[Len(ops)].state = "fulfilled"
    /\ Len(ops) < MaxOps
    /\ LET r == [p \in Participants |->
                    StartOf(p, p \in broken, p \in failing)]
       IN  /\ procs' = [p \in Participants |-> r[p].proc]
           /\ ops' = Append(ops,
                  JoinStarts([state  |-> "waiting",
                              starts |-> [k \in 1..(MaxChildren + 1) |->
                                             r[k - 1].start]]))
    /\ UNCHANGED <<options, proxyProc, lastStop, otherThanProc>>

\* the process of a pending start emits 'error' or 'exit' inside the grace
\* window: that start rejects
StartEmit(c, k, ev) ==
    /\ ops[c].starts[k].state = "pending"
    /\ procs' = [procs EXCEPT ![ops[c].starts[k].who] =
                    IF ev = "error" THEN "failed" ELSE "exited"]
    /\ ops' = [ops EXCEPT ![c] =
                  JoinStarts([@ EXCEPT !.starts[k].state = "rejected",
                                       !.starts[k].outcome = ev])]
    /\ UNCHANGED <<options, proxyProc, lastStop, otherThanProc>>

\* the 200 ms timer of a pending start fires: that start resolves
StartTimer(c, k) ==
    /\ ops[c].starts[k].state = "pending"
    /\ ops' = [ops EXCEPT ![c] =
                  JoinStarts([@ EXCEPT !.starts[k].state = "fulfilled",
                                       !.starts[k].outcome = "resolved"])]
    /\ UNCHANGED <<options, procs, proxyProc, lastStop, otherThanProc>>

NextStart ==
    \/ \E broken \in SUBSET (Participants \ {0}),
          failing \in SUBSET Participants : CollStart(broken, failing)
    \/ \E c \in DOMAIN ops : \E k \in DOMAIN ops[c].starts :
           \E ev \in {"error", "exit"} : StartEmit(c, k, ev)
    \/ \E c \in DOMAIN ops : \E k \in DOMAIN ops[c].starts : StartTimer(c, k)

SpecStart == InitStart /\ [][NextStart]_vars

----------------------------------------------------------------------------
(* SpecFixture: createTestTargets of the TestAdapter                       *)

\* the id the TestAdapter is constructed with ("/t")
TestId == LeafId

\* const count = 10
ReplicaCount == 10

\* entries in the fixture list
MaxFixture == 3

\* `${n}` for a number n >= 0
RECURSIVE IntToString(_)
IntToString(n) ==
    IF n < 10 THEN <<Digits[n + 1]>>
    ELSE IntToString(n \div 10) \o <<Digits[(n % 10) + 1]>>

\* targetCopy.id = targetCopy.id ? `${targetCopy.id}_test_${i}`
\*                                : `test_target_${i}`
TestTargetId(id, i) ==
    IF id # <<>>
    THEN id \o <<"_", "t", "e", "s", "t", "_">> \o IntToString(i)
    ELSE <<"t", "e", "s", "t", "_", "t", "a", "r", "g", "e", "t", "_">>
             \o IntToString(i)

\* the for loop of createTestTargets from replica i on, replica k being
\* made from the entry at offset sourceIndex[k + 1]
RECURSIVE TestTargetsFrom(_, _, _, _)
TestTargetsFrom(a, raw, sourceIndex, i) ==
    IF i >= Len(sourceIndex) THEN [adapter |-> a, targets |-> <<>>]
    ELSE LET sourceTarget == raw[sourceIndex[i + 1] + 1]
         IN  IF sourceTarget = Null
             THEN TestTargetsFrom(a, raw, sourceIndex, i + 1)
             ELSE LET targetCopy == [sourceTarget EXCEPT
                                        !.id = TestTargetId(@, i)]
                      r    == setTargetInfo(a, targetCopy, Null)
                      rest == TestTargetsFrom(r.adapter, raw, sourceIndex,
                                              i + 1)
                  IN  [adapter |-> rest.adapter,
                       targets |-> <<r.target>> \o rest.targets]

\* a replication that cycles through the entries
createTestTargets_Cycling(a, raw, count) ==
    IF raw = <<>> THEN [adapter |-> a, targets |-> <<>>]
    ELSE TestTargetsFrom(a, raw,
             [k \in 1..(IF count <= 0 THEN 1 ELSE count) |->
                 (k - 1) % Len(raw)], 0)

\* createTestTargets(rawTargets, count): replica i is made from entry i
\* while there is one and from entry 0 after that
createTestTargets(a, raw, count) ==
    IF raw = <<>> THEN [adapter |-> a, targets |-> <<>>]
    ELSE TestTargetsFrom(a, raw,
             [k \in 1..(IF count <= 0 THEN 1 ELSE count) |->
                 IF k - 1 < Len(raw) THEN k - 1 ELSE 0], 0)

\* fixture entries: with id "a", with id "b" and without id, each with and
\* without a socket address
FixtureEntries ==
    {RawTarget(id, ws) : id \in {<<"a">>, <<"b">>, <<>>}, ws \in {WsB1, <<>>}}

InitFixture ==
    /\ cycle = NoCycle
    /\ lastForward = NoForward
    /\ fixtureTargets \in StringsUpTo(FixtureEntries, MaxFixture)
    /\ testTargets = NoTestTargets
    /\ VerIdle
    /\ DecodeIdle
    /\ ProcIdle
    /\ adapters = <<NewAdapter(TestId, DefaultPort)>>
    /\ targets = <<>>
    /\ calls = <<>>
    /\ lastConnect = NoConnect
    /\ preStop = {}
    /\ coll = Null

\* TestAdapter.getTargets() once the fixture is read and parsed
CreateTestTargets ==
    /\ ~testTargets.done
    /\ LET r == createTestTargets(adapters[1], fixtureTargets, ReplicaCount)
       IN  /\ adapters' = [adapters EXCEPT ![1] = r.adapter]
           /\ testTargets' = [done |-> TRUE, list |-> r.targets]
    /\ UNCHANGED <<fixtureTargets, lastForward, cycle, targets, calls, lastConnect,
                   preStop, coll, decVars, procVars, verVars, normVars>>

NextFixture == CreateTestTargets

SpecFixture == InitFixture /\ [][NextFixture]_vars

----------------------------------------------------------------------------
(* SpecNorm: processDeviceVersions applied to every bounded device list    *)

\* entries of an enumeration: null, the simulator and two devices, each with
\* and without a reported OS version
NormEntries ==
    {Null}
    \cup {Device(id, v, <<"h", ":", "1">>) :
            id \in {Simulator, <<"a">>, <<"b">>},
            v \in {<<>>, <<"1", "2", ".", "2">>}}

InitNorm ==
    /\ FwdIdle
    /\ devices \in StringsUpTo(NormEntries, MaxDevices)
    /\ processedDevices = NotProcessed
    /\ version = <<>>
    /\ protocol = NoProtocol
    /\ DecodeIdle
    /\ RegIdle
    /\ ProcIdle

\* IOSAdapter.processDeviceVersions(devices)
ProcessDeviceVersions ==
    /\ ~processedDevices.done
    /\ processedDevices' = [done |-> TRUE,
                            list |-> processDeviceVersions(devices)]
    /\ UNCHANGED <<devices, otherThanNorm>>

NextNorm == ProcessDeviceVersions

SpecNorm == InitNorm /\ [][NextNorm]_vars

----------------------------------------------------------------------------
(* SpecAgg: an AdapterCollection over two or three adapters                *)

\* the id the collection is constructed with ("/c")
AggId == <<"/", "c">>

\* the ids of its children, which are the keys they are registered under
AggChildIds == << <<"/", "A">>, <<"/", "B">>, <<"/", "C">> >>

AggX == RawTarget(<<"x">>, WsB1)

AggY == RawTarget(<<"y">>, WsB2)

\* what a child's backend may answer: the well-formed bodies [], [x], [x, y]
\* and [y, x], and every single failure
AggResponses ==
    {resp \in SingleFault({AggX, AggY}, 2) :
        resp.body.targets \in {<<>>, <<AggX>>, <<AggX, AggY>>, <<AggY, AggX>>}}

\* addresses a client may connect to: targets of every child, listed or
\* not, an address with no second slash, one with an empty remainder, an
\* unknown namespace, none
AggConnectUrls ==
    {AggChildIds[i] \o <<"/">> \o t :
        i \in DOMAIN AggChildIds, t \in {<<"x">>, <<"y">>}}
    \cup {AggChildIds[1] \o <<"/", "z">>, AggChildIds[1],
          AggChildIds[1] \o <<"/">>, <<"/", "Z", "/", "x">>, <<>>}

\* one getTargets call of the collection; per child: how its call failed,
\* if it did, and the valid elements its backend listed in time
IdleAggCall ==
    [state |-> "idle", children |-> <<>>, result |-> <<>>]

AggChild(child) == child @@ [failure |-> "none", listed |-> <<>>]

InitAgg ==
    /\ FwdIdle
    /\ VerIdle
    /\ DecodeIdle
    /\ ProcIdle
    /\ \E n \in {2, 3} :
          /\ adapters = [i \in 1..n |-> NewAdapter(AggChildIds[i], DefaultPort)]
          /\ coll = [id |-> AggId, proxyProc |-> 0,
                     adapters |-> [i \in 1..n |->
                                     [adapterId |-> AggChildIds[i], inst |-> i]],
                     protocolMap |-> <<>>]
    /\ targets = <<>>
    /\ calls = [c \in 1..MaxCalls |-> IdleAggCall]
    /\ lastConnect = NoConnect
    /\ preStop = {}

\* AdapterCollection.getTargets(): one getTargets call per child, in
\* registry order
AggGetTargets(c) ==
    /\ calls[c].state = "idle"
    /\ LET children == StartChildren(coll.adapters, Null)
       IN  calls' = [calls EXCEPT ![c] =
              [state    |-> IF children = <<>> THEN "resolved" ELSE "children",
               children |-> [i \in DOMAIN children |-> AggChild(children[i])],
               result   |-> <<>>]]
    /\ UNCHANGED <<adapters, targets, lastConnect, preStop, coll, otherThanReg>>

\* the 10 s timer of the getTargets call of child i fires first
AggChildTimeout(c, i) ==
    /\ calls[c].children[i].state = "pending"
    /\ calls' = [calls EXCEPT ![c] =
                    Join([@ EXCEPT !.children[i].state = "resolved",
                                   !.children[i].failure = "timeout"])]
    /\ UNCHANGED <<adapters, targets, lastConnect, preStop, coll, otherThanReg>>

\* the getTargets promise of child i rejects (a child of an Adapter subclass
\* whose getTargets throws): the catch of the collection turns it into []
AggChildReject(c, i) ==
    /\ calls[c].children[i].state = "pending"
    /\ ~calls[c].children[i].responded
    /\ calls' = [calls EXCEPT ![c] =
                    Join([@ EXCEPT !.children[i].state = "resolved",
                                   !.children[i].responded = TRUE,
                                   !.children[i].failure = "rejected"])]
    /\ UNCHANGED <<adapters, targets, lastConnect, preStop, coll, otherThanReg>>

\* the request of the getTargets call of child i calls back
AggChildResponse(c, i, resp) ==
    /\ ~calls[c].children[i].responded
    /\ LET child == calls[c].children[i]
           r     == RequestCallback(adapters[child.inst], resp, child.metadata)
           first == child.state = "pending"
       IN  /\ adapters' = [adapters EXCEPT ![child.inst] = r.adapter]
           /\ calls' = [calls EXCEPT ![c] =
                  Join([@ EXCEPT
                      !.children[i].responded = TRUE,
                      !.children[i].state = "resolved",
                      !.children[i].result = IF first THEN r.targets ELSE @,
                      !.children[i].failure =
                          IF first /\ Malformed(resp) THEN "malformed" ELSE @,
                      !.children[i].listed =
                          IF first /\ ~Malformed(resp)
                          THEN SelectSeq(resp.body.targets, ValidTarget)
                          ELSE @])]
    /\ UNCHANGED <<targets, lastConnect, preStop, coll, otherThanReg>>

\* AdapterCollection.connectTo(url, wsFrom)
AggConnectTo(u, wsFrom, throws) ==
    LET routed == CollectionConnectTo(u, wsFrom, throws)
    IN  /\ Len(routed.r.targets) <= MaxTargets
        /\ adapters' = routed.r.adapters
        /\ targets' = routed.r.targets
        /\ UNCHANGED <<calls, lastConnect, preStop, coll, otherThanReg>>

NextAgg ==
    \/ \E c \in 1..MaxCalls : AggGetTargets(c)
    \/ \E c \in 1..MaxCalls : \E i \in DOMAIN calls[c].children :
           AggChildTimeout(c, i)
    \/ \E c \in 1..MaxCalls : \E i \in DOMAIN calls[c].children :
           AggChildReject(c, i)
    \/ \E c \in 1..MaxCalls : \E i \in DOMAIN calls[c].children :
           \E resp \in AggResponses : AggChildResponse(c, i, resp)
    \/ \E u \in AggConnectUrls, ws \in {0, 1}, throws \in BOOLEAN :
           AggConnectTo(u, ws, throws)

SpecAgg == InitAgg /\ [][NextAgg]_vars

----------------------------------------------------------------------------
(* SpecFwd: forwardTo on an AdapterCollection over two adapters            *)

\* sessions take at most this many messages
MaxForward == 1

\* a child's backend lists target x
FwdResponses ==
    {resp \in Responses({AggX}, 1) :
        Faults(resp) = {} /\ resp.body.targets # <<>>}

FwdConnectUrls ==
    {AggChildIds[i] \o <<"/", "x">> : i \in {1, 2}}

\* addresses a message may be forwarded to: a target of the first child, an
\* id it has no session for, an address with no second slash, an unknown
\* namespace, none
FwdUrls ==
    {AggChildIds[1] \o <<"/", "x">>, AggChildIds[1] \o <<"/", "z">>,
     AggChildIds[1], <<"/", "Z", "/", "x">>, <<>>}

\* the empty message and a protocol message
FwdMessages == {<<>>, <<"m">>}

InitFwd ==
    /\ FwdIdle
    /\ VerIdle
    /\ DecodeIdle
    /\ ProcIdle
    /\ adapters = [i \in 1..2 |-> NewAdapter(AggChildIds[i], DefaultPort)]
    /\ coll = [id |-> AggId, proxyProc |-> 0,
               adapters |-> [i \in 1..2 |->
                               [adapterId |-> AggChildIds[i], inst |-> i]],
               protocolMap |-> <<>>]
    /\ targets = <<>>
    /\ calls = [c \in 1..MaxCalls |-> IdleAggCall]
    /\ lastConnect = NoConnect
    /\ preStop = {}

\* the bridge of session t reports closure; the adapter's listener re-emits
FwdSocketClosed(t) ==
    /\ ~targets[t].closed
    /\ targets' = [targets EXCEPT ![t].closed = TRUE]
    /\ UNCHANGED <<adapters, calls, lastConnect, preStop, coll, lastForward,
                   decVars, procVars, verVars, normVars, fixVars, devVars>>

\* AdapterCollection.forwardTo(url, message)
FwdForwardTo(u, message, throws) ==
    LET r == CollectionForwardTo(u, message, throws)
    IN  /\ \A t \in DOMAIN r.targets : r.targets[t].forwarded <= MaxForward
        /\ targets' = r.targets
        /\ lastForward' = [url |-> u, message |-> message, throws |-> throws,
                           inst |-> r.inst, target |-> r.target,
                           raised |-> FALSE]
        /\ UNCHANGED <<adapters, calls, lastConnect, preStop, coll,
                       decVars, procVars, verVars, normVars, fixVars, devVars>>

NextFwd ==
    \/ \E c \in 1..MaxCalls : AggGetTargets(c)
    \/ \E c \in 1..MaxCalls : \E i \in DOMAIN calls[c].children :
           AggChildTimeout(c, i)
    \/ \E c \in 1..MaxCalls : \E i \in DOMAIN calls[c].children :
           \E resp \in FwdResponses : AggChildResponse(c, i, resp)
    \/ \E u \in FwdConnectUrls, throws \in BOOLEAN :
           AggConnectTo(u, 1, throws)
    \/ \E t \in DOMAIN targets : FwdSocketClosed(t)
    \/ \E u \in FwdUrls, message \in FwdMessages, throws \in BOOLEAN :
           FwdForwardTo(u, message, throws)

SpecFwd == InitFwd /\ [][NextFwd]_vars

----------------------------------------------------------------------------
(* SpecLife: every operation of a device collection, devices come and go   *)

\* the enumeration answers: the well-formed lists of devices a and b that
\* name no device twice
LifeDeviceResponses ==
    {resp \in Responses(IosDevices, MaxDevices) :
        /\ Faults(resp) = {}
        /\ \A i, j \in DOMAIN resp.body.targets :
              resp.body.targets[i] = resp.body.targets[j] => i = j}

\* the address of connect and forward: target x/y of device a
LifeUrls ==
    {DeviceAdapterId(<<"a">>) \o <<"/", "x", "/", "y">>}

\* IOSAdapter.start(): AdapterCollection.start() spawns the proxy unless
\* one is running or spawn() throws; the children have no executable
LifeStart(spawnThrows) ==
    /\ coll' = IF coll.proxyProc # 0 \/ spawnThrows THEN coll
               ELSE [coll EXCEPT !.proxyProc = 1]
    /\ UNCHANGED <<adapters, targets, calls, lastConnect, preStop,
                   otherThanReg>>

\* IOSAdapter.stop()
LifeStop ==
    /\ coll' = CollectionStop.coll
    /\ adapters' = CollectionStop.adapters
    /\ UNCHANGED <<targets, calls, lastConnect, preStop, otherThanReg>>

\* IOSAdapter.forceRefresh()
LifeRefresh(superFails, failing) ==
    LET r == CollectionRefresh(superFails, failing)
    IN  /\ coll' = r.coll
        /\ adapters' = r.adapters
        /\ targets' = r.targets
        /\ UNCHANGED <<calls, lastConnect, preStop, otherThanReg>>

NextLife ==
    \/ \E c \in 1..MaxCalls : IosGetTargets(c)
    \/ \E c \in 1..MaxCalls : IosDevicesTimeout(c)
    \/ \E c \in 1..MaxCalls, resp \in LifeDeviceResponses :
           IosDevicesResponse(c, resp)
    \/ \E c \in 1..MaxCalls : \E i \in DOMAIN calls[c].children :
           ChildTimeout(c, i)
    \/ \E c \in 1..MaxCalls : \E i \in DOMAIN calls[c].children :
           \E resp \in BindTargetResponses :
               ChildResponse(c, i, resp)
    \/ \E u \in LifeUrls, throws \in BOOLEAN : IosConnectTo(u, 1, throws)
    \/ \E u \in LifeUrls : FwdForwardTo(u, <<"m">>, FALSE)
    \/ \E spawnThrows \in BOOLEAN : LifeStart(spawnThrows)
    \/ LifeStop
    \/ \E superFails \in BOOLEAN, failing \in SUBSET (1..MaxChildren) :
           LifeRefresh(superFails, failing)

SpecLife == InitColl /\ [][NextLife]_vars

----------------------------------------------------------------------------
(* SpecMeta: the metadata a collection hands to its children               *)

\* metadata objects a caller may supply
MetaValues == {[tag |-> "m"], [tag |-> "n"]}

\* ordered collections of them, shorter or longer than the registry
MetaLists == StringsUpTo(MetaValues, MaxChildren + 1)

\* AdapterCollection.getTargets(metadata); the call remembers what it was
\* given
MetaGetTargets(c, metadata) ==
    /\ calls[c].state \in {"idle", "resolved"}
    /\ LET children == StartChildren(coll.adapters, metadata)
       IN  calls' = [calls EXCEPT ![c] =
              [state    |-> IF children = <<>> THEN "resolved" ELSE "children",
               children |-> [i \in DOMAIN children |-> AggChild(children[i])],
               result   |-> <<>>,
               supplied |-> metadata]]
    /\ UNCHANGED <<adapters, targets, lastConnect, preStop, coll, otherThanReg>>

NextMeta ==
    \/ \E c \in 1..MaxCalls : MetaGetTargets(c, Null)
    \/ \E c \in 1..MaxCalls, v \in MetaValues :
           MetaGetTargets(c, [isArray |-> FALSE, value |-> v])
    \/ \E c \in 1..MaxCalls, l \in MetaLists :
           MetaGetTargets(c, [isArray |-> TRUE, value |-> l])
    \/ \E c \in 1..MaxCalls : \E i \in DOMAIN calls[c].children :
           AggChildTimeout(c, i)
    \/ \E c \in 1..MaxCalls : \E i \in DOMAIN calls[c].children :
           \E resp \in FwdResponses : AggChildResponse(c, i, resp)

SpecMeta == InitAgg /\ [][NextMeta]_vars

----------------------------------------------------------------------------
(* Claims                                                                  *)

\* C1: under any sequence of connect requests for a listed Target Id (each
\* with a client socket), every request after the first returns the
\* identical session object, only its client side rebound, and at most one
\* backend connection is ever established for that Target Id: no two Target
\* objects are ever constructed for the same adapter and Target Id, and the
\* session a connect returned is the registered one, bound to that socket.
C1_ConnectReusesSession ==
    /\ \A s, t \in DOMAIN targets :
           (/\ targets[s].owner = targets[t].owner
            /\ targets[s].targetId = targets[t].targetId) => s = t
    /\ lastConnect.target # 0 =>
           /\ lastConnect.ws # 0
           /\ targets[lastConnect.target].owner = lastConnect.inst
           /\ targets[lastConnect.target].targetId = lastConnect.targetId
           /\ targets[lastConnect.target].wsTools = lastConnect.ws
           /\ targets[lastConnect.target].url =
                  targets[lastConnect.target].data.webSocketDebuggerUrl
           /\ adapters[lastConnect.inst].targetMap[lastConnect.targetId]
                  = lastConnect.target

\* a connect returned the session an earlier connect had constructed
C1_Witness ==
    /\ lastConnect.target # 0
    /\ lastConnect.reuse = "live"

\* C2: for every valid discovered element, the rewritten session URL and the
\* rewritten viewer URL of its descriptor do not contain the element's real
\* backend socket address.
C2_RewrittenUrlsHideBackend ==
    \A c \in DOMAIN calls : \A k \in DOMAIN calls[c].result :
        LET real == calls[c].listed[k].webSocketDebuggerUrl
        IN  real # <<>> =>
                /\ ~Includes(calls[c].result[k].webSocketDebuggerUrl, real)
                /\ ~Includes(calls[c].result[k].devtoolsFrontendUrl, real)

\* C3: after the bridge of the session of Target Id T has reported closure,
\* connect(T, socket) does not return that closed session.
C3_ClosedSessionNotReturned == lastConnect.reuse # "closed"

\* C4: after stop() no session that existed before it is still in the
\* Session Registry.
C4_StopDestroysSessions ==
    \A inst \in DOMAIN adapters : Registered(inst) \cap preStop = {}

\* C7: a malformed discovery response (request error, no response, status
\* other than 200, empty body, non-JSON body, JSON that is not an array)
\* makes the call return an empty list and leaves the Descriptor and Session
\* registries as they were.
C7_MalformedResponseYieldsEmpty ==
    [][\A c \in DOMAIN calls :
          (/\ ~calls[c].responded
           /\ calls'[c].responded
           /\ calls'[c].malformed)
          => /\ calls'[c].state = "resolved"
             /\ calls'[c].result = <<>>
             /\ adapters' = adapters
             /\ targets' = targets]_vars

\* a malformed response has been handled while the registries held entries
C7_Witness ==
    \E c \in DOMAIN calls :
        /\ calls[c].responded
        /\ calls[c].malformed
        /\ calls[c].result = <<>>
        /\ adapters[1].targetData # <<>>
        /\ adapters[1].targetMap # <<>>

AddrABC == <<"/", "A", "/", "B", "/", "C">>

\* C8 as stated: "/A/B/C" decodes to namespace id "A" (the text from offset 1
\* up to the next "/") and target id "B/C", and "/A" fails to decode.
C8_Original ==
    decPc = "done" =>
        /\ url = AddrABC =>
               wsId = [ok |-> TRUE, adapterId |-> <<"A">>,
                       targetId |-> <<"B", "/", "C">>]
        /\ url = <<"/", "A">> => ~wsId.ok

\* C8 as amended: "/A/B/C" decodes to namespace id "/A" and target id "B/C":
\* the namespace id is the text from offset 0 up to, excluding, the first "/"
\* at offset 1 or later (it keeps the leading slash), everything after that
\* slash is the target id verbatim, and an address with no such slash, like
\* "/A", fails to decode.
C8_DecodeKeepsLeadingSlash ==
    decPc = "done" =>
        /\ url = AddrABC =>
               wsId = [ok |-> TRUE, adapterId |-> <<"/", "A">>,
                       targetId |-> <<"B", "/", "C">>]
        /\ url = <<"/", "A">> => ~wsId.ok
        /\ wsId.ok =>
               /\ url = wsId.adapterId \o <<"/">> \o wsId.targetId
               /\ wsId.targetId # <<>>
               /\ wsId.adapterId # <<>>
               /\ \A i \in 2..Len(wsId.adapterId) : wsId.adapterId[i] # "/"
        /\ (\A i \in 2..Len(url) : url[i] # "/") => ~wsId.ok

\* "/A/B/C" has been decoded
C8_Witness ==
    /\ decPc = "done"
    /\ url = AddrABC
    /\ wsId.ok

\* C9: decoding fails for every address that has no second slash, whose
\* first path segment (between offset 1 and the next slash) is empty, or
\* whose remainder after that slash is empty.
C9_DecodeRejectsEmptyPieces ==
    decPc = "done" =>
        LET index == IndexOf(url, "/", 1)
        IN  (\/ index = -1
             \/ index = 1
             \/ index = Len(url) - 1) => ~wsId.ok

\* C5: once a refresh() invoked with the process handle and the launch
\* parameters known has completed, a process spawned by that refresh is the
\* one held in the handle (unless that new process itself failed inside its
\* grace window).
C5_RefreshRelaunches ==
    \A o \in DOMAIN ops :
        (/\ ops[o].kind = "refresh"
         /\ ops[o].old # 0
         /\ ops[o].pc = "done"
         /\ ops[o].outcome \notin {"error", "exit", "close", "kill error",
                                   "spawn error"})
        => /\ ops[o].pid # 0
           /\ ops[o].pid # ops[o].old
           /\ ops[o].handle = ops[o].pid

\* C6: every descriptor a discovery call of the device collection returned
\* carries as metadata the descriptor of the device whose child adapter
\* produced it.
C6_MetadataOfOwnDevice ==
    \A c \in DOMAIN calls :
        calls[c].state = "resolved" =>
            \A i \in DOMAIN calls[c].children :
                \A k \in DOMAIN calls[c].children[i].result :
                    LET d == calls[c].children[i].result[k]
                    IN  /\ d.metadata # Null
                        /\ DeviceAdapterId(d.metadata.deviceId)
                               = calls[c].children[i].adapterId

\* the path part of a rewritten session URL: what follows the proxy base URL
PathPart(u) == SubstrFrom(u, Len(ProxyUrl))

\* C10: for every descriptor a discovery call of the collection returned,
\* connect on the path part of its rewritten session URL is routed to the
\* child adapter that produced the descriptor, with exactly the descriptor's
\* target id, and yields a session there.
C10_AddressRoundTrip ==
    \A c \in DOMAIN calls :
        calls[c].state = "resolved" =>
            \A i \in DOMAIN calls[c].children :
                \A k \in DOMAIN calls[c].children[i].result :
                    LET d == calls[c].children[i].result[k]
                        routed == CollectionConnectTo(
                                      PathPart(d.webSocketDebuggerUrl), 1, FALSE)
                    IN  /\ Substr(d.webSocketDebuggerUrl, 0, Len(ProxyUrl))
                               = ProxyUrl
                        /\ routed.inst = calls[c].children[i].inst
                        /\ routed.targetId = d.id
                        /\ routed.r.target # 0
                        /\ routed.r.targets[routed.r.target].owner
                               = calls[c].children[i].inst
                        /\ routed.r.targets[routed.r.target].targetId = d.id

\* a returned descriptor whose id holds a slash, the session a connect on its
\* address created in the child that produced it, and a second child beside it
C10_Witness ==
    \E c \in DOMAIN calls :
        /\ calls[c].state = "resolved"
        /\ Len(calls[c].children) = 2
        /\ \E i \in DOMAIN calls[c].children :
               \E k \in DOMAIN calls[c].children[i].result :
                   LET d == calls[c].children[i].result[k]
                   IN  /\ Includes(d.id, <<"/">>)
                       /\ \E t \in DOMAIN targets :
                              /\ targets[t].owner = calls[c].children[i].inst
                              /\ targets[t].targetId = d.id

\* what child i of a call contributed: the valid elements its backend listed,
\* nothing if its call failed
Contribution(child) ==
    IF child.failure = "none" THEN child.listed ELSE <<>>

\* the number of descriptors contributed by the children before child i
RECURSIVE Offset(_, _)
Offset(children, i) ==
    IF i = 1 THEN 0
    ELSE Offset(children, i - 1) + Len(Contribution(children[i - 1]))

\* C11: the list a collection's discovery call returns is the concatenation,
\* in child-registry order, of every child's contribution, a child whose call
\* failed (timed out, rejected or got a malformed response) contributing
\* nothing; the order inside one child's contribution is the backend's.
C11_ConcatInRegistryOrder ==
    \A c \in DOMAIN calls :
        calls[c].state = "resolved" =>
            LET children == calls[c].children
                n        == Len(children)
            IN  /\ n = Len(coll.adapters)
                /\ \A i \in 1..n :
                       children[i].adapterId = coll.adapters[i].adapterId
                /\ Len(calls[c].result) =
                       Offset(children, n) + Len(Contribution(children[n]))
                /\ \A i \in 1..n :
                       \A k \in DOMAIN Contribution(children[i]) :
                           LET d == calls[c].result[Offset(children, i) + k]
                               t == Contribution(children[i])[k]
                           IN  /\ d.id = t.id
                               /\ d.webSocketDebuggerUrl =
                                      ProxyUrl \o children[i].adapterId
                                          \o <<"/">> \o t.id

\* three children: the second failed, the first contributed two descriptors
\* and the third one
C11_Witness ==
    \E c \in DOMAIN calls :
        /\ calls[c].state = "resolved"
        /\ Len(calls[c].children) = 3
        /\ calls[c].children[2].failure # "none"
        /\ Len(Contribution(calls[c].children[1])) = 2
        /\ Len(Contribution(calls[c].children[3])) = 1
        /\ Len(calls[c].result) = 3

\* C12: in a collection of two adapters A and B, when A's backend lists two
\* targets and B's call times out, the discovery call returns exactly A's two
\* rewritten descriptors, and a connect to B's namespace then returns null
\* for every target id.
C12_TimedOutChildHasNoTargets ==
    \A c \in DOMAIN calls :
        (/\ calls[c].state = "resolved"
         /\ Len(calls[c].children) = 2
         /\ calls[c].children[1].failure = "none"
         /\ Len(calls[c].children[1].listed) = 2
         /\ calls[c].children[2].failure = "timeout")
        => /\ Len(calls[c].result) = 2
           /\ \A k \in 1..2 :
                  /\ calls[c].result[k].id = calls[c].children[1].listed[k].id
                  /\ calls[c].result[k].webSocketDebuggerUrl =
                         ProxyUrl \o AggChildIds[1] \o <<"/">>
                             \o calls[c].children[1].listed[k].id
           /\ \A t \in {<<"x">>, <<"y">>, <<"z">>} :
                  CollectionConnectTo(AggChildIds[2] \o <<"/">> \o t,
                                      1, FALSE).r.target = 0

\* the address cannot be decoded, names no registered child, or names a
\* target id its child has no descriptor for
Unroutable(u) ==
    LET id == getWebSocketId(u)
    IN  \/ ~id.ok
        \/ ~HasKey(coll.adapters, id.adapterId)
        \/ id.targetId
               \notin DOMAIN adapters[MapGet(coll.adapters, id.adapterId)].targetData

\* C13: a connect whose address cannot be decoded, names an unregistered
\* namespace id or names a target id absent from the owning adapter's
\* Descriptor Registry returns null and leaves the registries and the
\* sessions as they are: no session is created or rebound.
C13_UnroutableConnectIsNoOp ==
    \A u \in AggConnectUrls, ws \in {0, 1}, throws \in BOOLEAN :
        Unroutable(u) =>
            LET routed == CollectionConnectTo(u, ws, throws)
            IN  /\ routed.r.target = 0
                /\ routed.r.adapters = adapters
                /\ routed.r.targets = targets

\* sessions exist in two children while one child has no descriptor at all,
\* so that addresses of all three kinds are at hand
C13_Witness ==
    /\ Len(targets) >= 2
    /\ \E i \in DOMAIN adapters : adapters[i].targetData = <<>>
    /\ \E i \in DOMAIN adapters : adapters[i].targetMap # <<>>
    /\ Unroutable(AggChildIds[1] \o <<"/", "z">>)
    /\ ~Unroutable(AggChildIds[1] \o <<"/", "x">>)

\* in this step call o runs the executor of spawnProcess: a start() on an
\* adapter with an executable, or a refresh whose delay is over
Spawning(o) ==
    \/ /\ o \notin DOMAIN ops
       /\ ops'[o].kind = "start"
       /\ options.proxyExePath
    \/ /\ o \in DOMAIN ops
       /\ ops[o].pc = "delay"
       /\ ops'[o].pc # "delay"

\* C14: a process-spawn on an adapter that holds a process handle fails with
\* "already started", spawns nothing and leaves the handle as it is, also
\* inside the grace window of the call that spawned the held process.
C14_SecondSpawnRejected ==
    [][\A o \in DOMAIN ops' :
          (Spawning(o) /\ proxyProc # 0)
          => /\ ops'[o].pc = "done"
             /\ ops'[o].outcome = "already started"
             /\ ops'[o].pid = 0
             /\ procs' = procs
             /\ proxyProc' = proxyProc]_vars

\* a second start() was rejected while the first is inside its grace window
C14_Witness ==
    \E o1, o2 \in DOMAIN ops :
        /\ o1 < o2
        /\ ops[o1].pc = "grace"
        /\ ops[o1].pid = proxyProc
        /\ ops[o2].kind = "start"
        /\ ops[o2].outcome = "already started"

\* C15: at every moment at most one managed child process of the adapter is
\* live (spawned and not yet exited).
C15_AtMostOneLiveProcess ==
    Cardinality({p \in DOMAIN procs : Live(p)}) <= 1

\* C16: stop() never raises; with a handle held, the process is signalled
\* and the handle cleared; with no handle, stop() changes nothing; when the
\* signalling itself errors, the error stays inside stop() and nothing
\* changes.
C16_StopIdempotent ==
    [][lastStop'.n # lastStop.n
       => /\ ~lastStop'.raised
          /\ ops' = ops
          /\ options' = options
          /\ (proxyProc # 0 /\ ~lastStop'.threw)
             => /\ proxyProc' = 0
                /\ procs'[proxyProc] # "running"
                /\ \A q \in DOMAIN procs \ {proxyProc} : procs'[q] = procs[q]
          /\ proxyProc = 0 => (proxyProc' = 0 /\ procs' = procs)
          /\ lastStop'.threw => (proxyProc' = proxyProc /\ procs' = procs)]_vars

\* stop() has run at least twice, one of the calls signalled a process and
\* cleared the handle
C16_Witness ==
    /\ lastStop.n = 0
    /\ proxyProc = 0
    /\ \E p \in DOMAIN procs : procs[p] = "signalled"

\* process p emits 'error', 'exit' or 'close' in this step
Emits(p) ==
    /\ p \in DOMAIN procs
    /\ procs'[p] # procs[p]
    /\ procs'[p] \in {"failed", "exited", "closed"}

\* C17: a start() resolves once. One that spawned a process fails on the
\* first error, exit or close event of that process inside the grace window
\* and succeeds when the window elapses without one; events after a
\* successful start change neither its outcome nor the adapter. With no
\* executable configured, start() succeeds and spawns nothing.
C17_StartResolvesOnce ==
    [][\A o \in DOMAIN ops' :
          ops'[o].kind = "start" =>
              /\ (o \in DOMAIN ops /\ ops[o].pc = "done")
                 => /\ ops'[o].pc = "done"
                    /\ ops'[o].outcome = ops[o].outcome
              /\ (o \in DOMAIN ops /\ ops[o].pc = "grace")
                 => /\ Emits(ops[o].pid)
                       => /\ ops'[o].pc = "done"
                          /\ ops'[o].outcome \in {"error", "exit", "close"}
                    /\ (~Emits(ops[o].pid) /\ ops'[o].pc = "done")
                       => /\ ops'[o].outcome = "resolved"
                          /\ ops[o].timer = "armed"
                          /\ ops'[o].timer = "fired"
                    /\ (ops[o].timer = "armed" /\ ops'[o].timer = "fired")
                       => /\ ops'[o].pc = "done"
                          /\ ops'[o].outcome = "resolved"
              /\ (o \in DOMAIN ops /\ ops[o].outcome = "resolved"
                    /\ Emits(ops[o].pid))
                 => /\ ops' = ops
                    /\ proxyProc' = proxyProc
                    /\ options' = options
              /\ (o \notin DOMAIN ops /\ ~options.proxyExePath)
                 => /\ ops'[o].pc = "done"
                    /\ ops'[o].outcome = "skipped"
                    /\ procs' = procs
                    /\ proxyProc' = proxyProc]_vars

\* a start() succeeded and its process has exited since; another start()
\* failed on an event inside its grace window
C17_Witness ==
    /\ \E o \in DOMAIN ops :
           /\ ops[o].kind = "start"
           /\ ops[o].outcome = "resolved"
           /\ procs[ops[o].pid] \in {"exited", "closed"}
    /\ \E o \in DOMAIN ops :
           /\ ops[o].kind = "start"
           /\ ops[o].outcome \in {"error", "exit", "close"}


\* C18: a getTargets call of the device collection, the collection join in
\* it and every leaf getTargets call in it end with a list, whether the
\* backends answer, answer badly or never answer; no call ends otherwise
C18_DiscoveryAlwaysReturns ==
    \A c \in 1..MaxCalls :
       /\ [](calls[c].state \in {"idle", "devices", "children", "resolved"})
       /\ (calls[c].state \in {"devices", "children"})
             ~> (calls[c].state = "resolved")
       /\ \A i \in 1..MaxDevices :
             (i \in DOMAIN calls[c].children
                 /\ calls[c].children[i].state = "pending")
             ~> (i \in DOMAIN calls[c].children
                 => calls[c].children[i].state = "resolved")

\* a call returned although one backend never answered
C18_Witness ==
    \E c \in 1..MaxCalls :
       /\ calls[c].state = "resolved"
       /\ calls[c].children # <<>>
       /\ \E i \in DOMAIN calls[c].children : ~calls[c].children[i].responded
       /\ \E i \in DOMAIN calls[c].children : calls[c].children[i].result # <<>>


\* the major and the minor part of a version string as the selection reads
\* them: the text before the first dot and the text after it, by parseInt
Major(v) == parseInt(Split(v, ".")[1])

Minor(v) == IF Len(Split(v, ".")) > 1 THEN parseInt(Split(v, ".")[2]) ELSE NaN

\* C19: a major version of 8 or less selects the legacy protocol; major 12
\* with a minor of 2 or more selects the newest; major 12 with a minor
\* below 2 selects the middle one; a major part that is no number selects
\* the middle one; every non-empty version selects one of the three
C19_VersionSelection ==
    (protocol # NoProtocol /\ version # <<>>) =>
       /\ protocol \in {"IOS8Protocol", "IOS9Protocol", "IOS12Protocol"}
       /\ Major(version) = NaN => protocol = "IOS9Protocol"
       /\ Major(version) # NaN =>
             /\ Major(version).value <= 8 => protocol = "IOS8Protocol"
             /\ (Major(version).value = 12 /\ Minor(version) # NaN) =>
                   /\ Minor(version).value >= 2 => protocol = "IOS12Protocol"
                   /\ Minor(version).value < 2 => protocol = "IOS9Protocol"

\* version "12.1" has selected the middle protocol
C19_Witness ==
    /\ version = <<"1", "2", ".", "1">>
    /\ protocol = "IOS9Protocol"

\* C20: every version whose major version is 12 or more selects the newest
\* protocol, with or without a minor part
C20_NewestFromMajor12 ==
    (protocol # NoProtocol /\ version # <<>> /\ Major(version) # NaN) =>
       (Major(version).value >= 12 => protocol = "IOS12Protocol")


\* the non-null entries of an enumeration, in order
NonNull(ds) == SelectSeq(ds, LAMBDA d : d # Null)

\* C21: normalization keeps every non-null device, in order, and gives each
\* a non-empty version: the fallback for the simulator whatever it reports,
\* the reported OS version for another device that reports one, the
\* fallback for a device that reports none; null entries are left out
C21_EveryDeviceGetsVersion ==
    processedDevices.done =>
       /\ Len(processedDevices.list) = Len(NonNull(devices))
       /\ \A i \in DOMAIN processedDevices.list :
             LET d == NonNull(devices)[i]
                 p == processedDevices.list[i]
             IN  /\ p.deviceId = d.deviceId
                 /\ p.url = d.url
                 /\ p.version # <<>>
                 /\ d.deviceId = Simulator => p.version = FallbackVersion
                 /\ (d.deviceId # Simulator /\ d.deviceOSVersion # <<>>)
                       => p.version = d.deviceOSVersion
                 /\ (d.deviceId # Simulator /\ d.deviceOSVersion = <<>>)
                       => p.version = FallbackVersion

\* a null entry next to a simulator that reports an OS version
C21_Witness ==
    /\ processedDevices.done
    /\ Len(devices) = 2
    /\ devices[1] = Null
    /\ Len(processedDevices.list) = 1
    /\ devices[2].deviceId = Simulator
    /\ devices[2].deviceOSVersion # <<>>
    /\ processedDevices.list[1].version = FallbackVersion


\* C22: a session that has a protocol bound keeps that protocol in every
\* step, whichever client reconnects and whatever version a later discovery
\* stores for its target
C22_BoundOnce ==
    [][\A t \in DOMAIN coll.protocolMap :
          /\ t \in DOMAIN coll'.protocolMap
          /\ coll'.protocolMap[t] = coll.protocolMap[t]]_vars

\* another client has reconnected to a bound session after a rediscovery
\* stored another version for its target
C22_Witness ==
    /\ lastConnect.reuse = "live"
    /\ lastConnect.ws = 2
    /\ lastConnect.target \in DOMAIN coll.protocolMap
    /\ targets[lastConnect.target].wsTools = 2
    /\ LET stored == adapters[lastConnect.inst].targetData[lastConnect.targetId]
       IN  /\ stored.metadata # Null
           /\ stored.metadata.deviceId = <<"a">>
           /\ getProtocolFor(stored.metadata.version)
                 # coll.protocolMap[lastConnect.target]


\* the device a session belongs to: the one whose child adapter holds the
\* session's target, and the version normalization gives it
OwnerDevice(t) ==
    CHOOSE d \in IosDevices :
        DeviceAdapterId(d.deviceId) = adapters[targets[t].owner].id

OwnerVersion(t) == processDeviceVersions(<<OwnerDevice(t)>>)[1].version

\* C23: the protocol bound to a session is the one selected from the
\* normalized OS version of the device whose child adapter owns the session
C23_BoundFromOwnersVersion ==
    \A t \in DOMAIN coll.protocolMap :
        coll.protocolMap[t] = getProtocolFor(OwnerVersion(t))


\* C24: whenever routing yields a session, connectTo of the device
\* collection returns that session and the owning adapter has it registered
\* under the target id, whether or not a protocol could be bound to it
C24_SessionReturnedUnbound ==
    \A u \in ConnectUrls, ws \in {1}, throws \in BOOLEAN,
       selectThrows \in BOOLEAN :
        LET routed == CollectionConnectTo(u, ws, throws)
            r      == IosConnect(u, ws, throws, selectThrows)
        IN  routed.r.target # 0 =>
               /\ r.target = routed.r.target
               /\ r.targets = routed.r.targets
               /\ routed.targetId \in DOMAIN r.adapters[routed.inst].targetMap
               /\ r.adapters[routed.inst].targetMap[routed.targetId] = r.target
               /\ (selectThrows /\ r.target \notin DOMAIN coll.protocolMap)
                     => r.target \notin DOMAIN r.protocolMap

\* a registered session whose descriptor carried no metadata, so that no
\* protocol was bound to it
C24_Witness ==
    \E t \in DOMAIN targets :
        /\ targets[t].data.metadata = Null
        /\ t \notin DOMAIN coll.protocolMap
        /\ targets[t].targetId \in DOMAIN adapters[targets[t].owner].targetMap
        /\ adapters[targets[t].owner].targetMap[targets[t].targetId] = t


\* a step of forwardTo: the record of the last call changes, or a session
\* has taken a message
ForwardStep ==
    \/ lastForward' # lastForward
    \/ \E t \in DOMAIN targets \cap DOMAIN targets' :
          targets'[t].forwarded # targets[t].forwarded

\* C25: a forwardTo step never raises and never changes a Descriptor or
\* Session Registry or the children; the message reaches at most the
\* session registered under the decoded target id in the addressed child;
\* it reaches that session when the session is open and its forward does
\* not throw; a missing address or message, an undecodable address, an
\* unknown child, an id without session or a throwing forward deliver nothing
C25_ForwardDeliversOrDrops ==
    [][ForwardStep =>
          LET f  == lastForward'
              id == getWebSocketId(f.url)
          IN  /\ ~f.raised
              /\ adapters' = adapters
              /\ coll' = coll
              /\ DOMAIN targets' = DOMAIN targets
              /\ \A t \in DOMAIN targets :
                    /\ [targets'[t] EXCEPT !.forwarded = 0]
                          = [targets[t] EXCEPT !.forwarded = 0]
                    /\ targets'[t].forwarded # targets[t].forwarded =>
                          /\ id.ok
                          /\ f.message # <<>>
                          /\ ~f.throws
                          /\ ~targets[t].closed
                          /\ adapters[targets[t].owner].id = id.adapterId
                          /\ id.targetId
                                \in DOMAIN adapters[targets[t].owner].targetMap
                          /\ adapters[targets[t].owner].targetMap[id.targetId] = t
                          /\ targets'[t].forwarded = targets[t].forwarded + 1
              /\ (f.target # 0 /\ ~f.throws /\ ~targets[f.target].closed)
                    => targets'[f.target].forwarded
                          = targets[f.target].forwarded + 1]_vars

\* a message was dropped by a throwing forward of a registered session
\* after another one had been delivered to it
C25_Witness ==
    /\ lastForward.target # 0
    /\ lastForward.throws
    /\ targets[lastForward.target].forwarded = 1
    /\ Len(targets) = 2


\* C26: a start() of the collection has called the collection's own start
\* and every child's start, in order, whatever the earlier ones did; it
\* never fails; it has returned exactly when none of the starts is pending
C26_StartCollectsEveryOutcome ==
    \A c \in DOMAIN ops :
       /\ ops[c].state \in {"waiting", "fulfilled"}
       /\ Len(ops[c].starts) = MaxChildren + 1
       /\ \A k \in DOMAIN ops[c].starts : ops[c].starts[k].who = k - 1
       /\ ops[c].state = "fulfilled"
             <=> \A k \in DOMAIN ops[c].starts :
                    ops[c].starts[k].state # "pending"

\* a start() that returned although its own process failed to spawn, one
\* child's process exited in the grace window and the other child started
C26_Witness ==
    \E c \in DOMAIN ops :
       /\ ops[c].state = "fulfilled"
       /\ ops[c].starts[1].outcome = "spawn error"
       /\ ops[c].starts[2].outcome = "exit"
       /\ ops[c].starts[3].outcome = "resolved"


\* replica i (from 0) is made from fixture entry k (from 0): it has the id
\* derived from that entry's id and i, and the registry holds the entry's
\* socket address for it
ReplicaOf(i, k) ==
    LET d == testTargets.list[i + 1]
        e == fixtureTargets[k + 1]
    IN  /\ d.id = TestTargetId(e.id, i)
        /\ d.id \in DOMAIN adapters[1].targetData
        /\ adapters[1].targetData[d.id].webSocketDebuggerUrl
              = e.webSocketDebuggerUrl

\* the fixture list is non-empty and shorter than the replica count
ShortFixture == testTargets.done /\ 0 < Len(fixtureTargets)
                    /\ Len(fixtureTargets) < ReplicaCount

\* C27 as stated: ReplicaCount replicas, replica i made from entry
\* i mod n, all ids distinct
C27_Original ==
    ShortFixture =>
       /\ Len(testTargets.list) = ReplicaCount
       /\ \A i \in 0..(ReplicaCount - 1) :
             ReplicaOf(i, i % Len(fixtureTargets))
       /\ \A i, j \in DOMAIN testTargets.list :
             i # j => testTargets.list[i].id # testTargets.list[j].id

\* C27: ReplicaCount replicas; replica i is made from entry i while i is
\* below the length of the list and from entry 0 from then on; all ids are
\* distinct
C27_ReplicasFallBackToFirst ==
    ShortFixture =>
       /\ Len(testTargets.list) = ReplicaCount
       /\ \A i \in 0..(ReplicaCount - 1) :
             ReplicaOf(i, IF i < Len(fixtureTargets) THEN i ELSE 0)
       /\ \A i, j \in DOMAIN testTargets.list :
             i # j => testTargets.list[i].id # testTargets.list[j].id

\* replicas of a list of two entries with different ids and addresses
C27_Witness ==
    /\ ShortFixture
    /\ Len(fixtureTargets) = 2
    /\ fixtureTargets[1].id = <<"a">>
    /\ fixtureTargets[2].id = <<"b">>
    /\ fixtureTargets[1].webSocketDebuggerUrl
          # fixtureTargets[2].webSocketDebuggerUrl
    /\ testTargets.list[4].id = <<"a", "_", "t", "e", "s", "t", "_", "3">>


\* C28: when the request callback of a call runs after the timer of that
\* call has resolved it, the call keeps its result and the Descriptor
\* Registry is not written
C28_LateResponseIgnored ==
    [][\A c \in DOMAIN calls :
          (/\ c \in DOMAIN calls'
           /\ calls[c].state = "resolved"
           /\ ~calls[c].responded
           /\ calls'[c].responded)
          => /\ calls'[c].result = calls[c].result
             /\ \A i \in DOMAIN adapters :
                   adapters'[i].targetData = adapters[i].targetData]_vars


\* the prefix test: s begins with p
StartsWith(s, p) == Len(s) >= Len(p) /\ SubSeq(s, 1, Len(p)) = p

\* C29: a connect for an id without a registered session builds the session
\* on the endpoint the Descriptor Registry holds for the id, never on the
\* proxy URL, and registers it only when construction and connection
\* succeed; when they throw it returns null with the registries as they
\* were, and the next connect that does not throw gets a session
C29_NewSessionFromStoredEndpoint ==
    \A id \in LeafTargetIds, ws \in Clients, throws \in BOOLEAN :
        LET a == adapters[1]
            r == AdapterConnectTo(1, id, ws, throws)
        IN  id \notin DOMAIN a.targetMap =>
              /\ throws => r.target = 0
              /\ r.target = 0 =>
                    /\ r.adapters = adapters
                    /\ r.targets = targets
              /\ r.target # 0 =>
                    /\ id \in DOMAIN a.targetData
                    /\ r.targets[r.target].url =
                           a.targetData[id].webSocketDebuggerUrl
                    /\ ~StartsWith(r.targets[r.target].url, ProxyUrl)
                    /\ r.adapters[1].targetMap = (id :> r.target) @@ a.targetMap
              /\ (id \in DOMAIN a.targetData /\ ws # 0 /\ id # <<>>) =>
                    AdapterConnectTo(1, id, ws, FALSE).target # 0

C29_Witness ==
    /\ lastConnect.inst = 1
    /\ lastConnect.target # 0
    /\ lastConnect.reuse = "none"
    /\ targets[lastConnect.target].url = WsB2
    /\ adapters[1].targetMap[lastConnect.targetId] = lastConnect.target


\* the adapter ids of a registry
Keys(map) == {map[i].adapterId : i \in DOMAIN map}

\* an endpoint createDeviceAdapters cannot use: none, one without a colon,
\* one whose port text parseInt cannot read or reads as zero or less
BadEndpoint(u) ==
    IF u = <<>> THEN TRUE
    ELSE IF ~Includes(u, <<":">>) THEN TRUE
    ELSE LET port == parseInt(Split(u, ":")[2])
         IN  IF port = NaN THEN TRUE ELSE port.value <= 0

\* the entries of a list that carry device id and a usable endpoint
Usable(ds) ==
    {i \in DOMAIN ds : /\ ds[i] # Null
                       /\ ds[i].deviceId # <<>>
                       /\ ~BadEndpoint(ds[i].url)}

\* C30: a child adapter enters the registry under <parent id>_<device id>
\* as a started Adapter of that id, only for a listed device with a usable
\* endpoint; entries registered before a cycle keep their adapter and no
\* further adapter is created for them; a listed device with a usable
\* endpoint is registered after the cycle even if an earlier cycle left it
\* out
C30_DevicePipelineRegistration ==
    [][LET old == Keys(coll.adapters)
           new == Keys(coll'.adapters)
           L   == cycle'.enumerated
       IN  /\ \A k \in new \ old :
                 /\ \E j \in Usable(L) : k = IosId \o <<"_">> \o L[j].deviceId
                 /\ adapters'[MapGet(coll'.adapters, k)].id = k
                 /\ adapters'[MapGet(coll'.adapters, k)].proxyProc = 0
           /\ \A i \in DOMAIN coll.adapters :
                 /\ i \in DOMAIN coll'.adapters
                 /\ coll'.adapters[i] = coll.adapters[i]
           /\ \A i \in (DOMAIN adapters') \ (DOMAIN adapters) :
                 adapters'[i].id \notin old
           /\ \A j \in Usable(L) :
                 IosId \o <<"_">> \o L[j].deviceId \in new]_vars

\* device a was left out by a cycle and is registered now, after device b,
\* which the last list names again
C30_Witness ==
    /\ <<"a">> \in cycle.refused
    /\ Len(coll.adapters) = 2
    /\ coll.adapters[1].adapterId = DeviceAdapterId(<<"b">>)
    /\ coll.adapters[2].adapterId = DeviceAdapterId(<<"a">>)
    /\ \E j \in DOMAIN cycle.enumerated :
          cycle.enumerated[j] = Device(<<"b">>, <<>>, <<"h", ":", "2">>)


\* C31: no step of a device collection takes a Namespace Id out of its
\* Child Adapter Registry, whatever the operation and whichever devices the
\* enumeration still names
C31_RegistryOnlyGrows ==
    [][Keys(coll.adapters) \subseteq Keys(coll'.adapters)]_vars

\* devices a and b are registered, the running discovery enumerated one
\* device only, and the collection was started and has a session
C31_Witness ==
    /\ Keys(coll.adapters) =
           {DeviceAdapterId(<<"a">>), DeviceAdapterId(<<"b">>)}
    /\ \E c \in DOMAIN calls :
          /\ Len(calls[c].children) = 2
          /\ calls[c].children[1].metadata # Null
          /\ calls[c].children[2].metadata = Null
    /\ coll.proxyProc # 0
    /\ targets # <<>>


\* C32: in a discovery call of a collection that was given an ordered
\* collection of metadata, the child at registry position N was handed
\* entry N and its descriptors carry it; given a single value, every child
\* was handed that value and its descriptors carry it
C32_MetadataByRegistryPosition ==
    \A c \in DOMAIN calls :
        calls[c].state # "idle" =>
            LET m == calls[c].supplied
            IN  /\ Len(calls[c].children) = Len(coll.adapters)
                /\ \A N \in DOMAIN calls[c].children :
                      LET child == calls[c].children[N]
                          given == IF m.isArray THEN m.value[N] ELSE m.value
                      IN  /\ child.adapterId = coll.adapters[N].adapterId
                          /\ (m # Null /\ (m.isArray => N <= Len(m.value))) =>
                                /\ child.metadata = given
                                /\ \A k \in DOMAIN child.result :
                                      child.result[k].metadata = given

\* three children were handed three entries, the third differs from the
\* first, and the third child has listed a target
C32_Witness ==
    \E c \in DOMAIN calls :
        /\ calls[c].state # "idle"
        /\ calls[c].supplied # Null
        /\ calls[c].supplied.isArray
        /\ Len(calls[c].supplied.value) = 3
        /\ calls[c].supplied.value[3] # calls[c].supplied.value[1]
        /\ Len(calls[c].children) = 3
        /\ calls[c].children[3].result # <<>>


\* the Descriptor and the Session Registry of every adapter instance
Registries(as) ==
    [i \in DOMAIN as |->
        [targetData |-> as[i].targetData, targetMap |-> as[i].targetMap]]

C34_DescriptorsKeptSessionsDescribed ==
    [][/\ \A i \in DOMAIN adapters :
             /\ i \in DOMAIN adapters'
             /\ DOMAIN adapters[i].targetData
                    \subseteq DOMAIN adapters'[i].targetData
       /\ \A i \in DOMAIN adapters' :
             DOMAIN adapters'[i].targetMap
                 \subseteq DOMAIN adapters'[i].targetData
       /\ calls' # calls =>
             /\ targets' = targets
             /\ \A i \in DOMAIN adapters :
                   adapters'[i].targetMap = adapters[i].targetMap]_vars

\* the session of "a" was built on the first endpoint, a later discovery
\* overwrote the descriptor of "a", and another descriptor is stored too
C34_Witness ==
    /\ <<"a">> \in DOMAIN adapters[1].targetMap
    /\ targets[adapters[1].targetMap[<<"a">>]].url = WsB1
    /\ adapters[1].targetData[<<"a">>].webSocketDebuggerUrl = WsB2
    /\ WsB1 \in DOMAIN adapters[1].targetData


\* C35: while the handle is clear and the last call invoked is a refresh
\* still in its termination delay (so stop() ran after it was invoked, and
\* neither start() nor refresh() was invoked since), a step that invokes
\* nothing launches no process and leaves the handle clear
C35_NoLaunchAfterStop ==
    [][(/\ proxyProc = 0
        /\ ops # <<>>
        /\ Len(ops') = Len(ops)
        /\ ops[Len(ops)].kind = "refresh"
        /\ ops[Len(ops)].pc = "delay")
       => /\ Len(procs') = Len(procs)
          /\ proxyProc' = 0]_vars


\* a start() that failed because its process emitted an event inside the
\* grace window, while the adapter still holds the handle of that process
FailedStartHeld(o) ==
    /\ ops[o].kind = "start"
    /\ ops[o].pc = "done"
    /\ ops[o].outcome \in {"error", "exit", "close"}
    /\ proxyProc = ops[o].pid

\* C36: the step in which a start() fails on an event of its process inside
\* the grace window keeps the handle of that process; while such a handle is
\* held a further start() fails with "already started", spawns nothing and
\* keeps the handle; the handle changes only in a stop(), which clears it
C36_FailedStartKeepsHandle ==
    [][/\ \A o \in DOMAIN ops :
             (/\ ops[o].kind = "start"
              /\ ops[o].pc = "grace"
              /\ proxyProc = ops[o].pid
              /\ ops'[o].outcome \in {"error", "exit", "close"})
             => proxyProc' = ops[o].pid
       /\ (/\ Len(ops') > Len(ops)
           /\ ops'[Len(ops')].kind = "start"
           /\ \E o \in DOMAIN ops : FailedStartHeld(o))
          => /\ ops'[Len(ops')].outcome = "already started"
             /\ procs' = procs
             /\ proxyProc' = proxyProc
       /\ (proxyProc # 0 /\ proxyProc' # proxyProc)
          => /\ lastStop'.n # lastStop.n
             /\ proxyProc' = 0]_vars

\* a start() failed inside the grace window, its dead process is still the
\* handle, and a later start() was rejected as already started
C36_Witness ==
    \E o1, o2 \in DOMAIN ops :
        /\ o1 < o2
        /\ FailedStartHeld(o1)
        /\ ~Live(ops[o1].pid)
        /\ ops[o2].kind = "start"
        /\ ops[o2].outcome = "already started"
        /\ ops[o2].handle = ops[o1].pid


\* C37: with discovery calls overlapping, a registered Namespace Id maps to
\* the same adapter instance after every step, and no two adapter instances
\* were created for one device
C37_OneAdapterPerDevice ==
    [][/\ \A k \in Keys(coll.adapters) :
             /\ k \in Keys(coll'.adapters)
             /\ MapGet(coll'.adapters, k) = MapGet(coll.adapters, k)
       /\ \A i, j \in DOMAIN adapters' :
             adapters'[i].id = adapters'[j].id => i = j]_vars

=============================================================================
